---- MODULE Spec2Model ----
(***************************************************************************)
(* A model of s3tethys (src/s3tethys/main.py, src/s3tethys/utils.py): the  *)
(* streaming transfer, retry, pagination and batching layer over an        *)
(* S3-compatible client.                                                   *)
(*                                                                         *)
(* One library call runs per behaviour.  Every function of the library has *)
(* a frame (a record of its local variables and a program counter "pc");   *)
(* all frames start idle, a *_call action binds the arguments, and the     *)
(* remaining actions are the steps of the function body.  The backend      *)
(* (the boto3 client, smart_open) is the environment: each backend call    *)
(* either answers or raises, chosen nondeterministically.                  *)
(*                                                                         *)
(* Bytes are not enumerated: a stream of `size` bytes holds the bytes at   *)
(* offsets 0..size-1, and a run of bytes is the half-open interval         *)
(* <<lo, hi>> of the source offsets it holds.                              *)
(***************************************************************************)
EXTENDS Integers, Sequences, FiniteSets, TLC

VARIABLES
    put,        \* frame of put_object_s3
    bucket_put, \* backend seen by put_object_s3: stored object and API calls
    cp,         \* frame of copy_object_s3
    bucket_cp,  \* backend seen by copy_object_s3: number of copies performed
    get,        \* frame of get_object_s3
    url,        \* frame of url_to_stream
    net,        \* what get_object_s3 / url_to_stream did: clients built, opens
    ls,         \* frame of list_objects
    bucket_ls,  \* backend seen by list_objects: the listing and the requests
    del,        \* frame of delete_objects_s3
    bucket_del, \* backend seen by delete_objects_s3: objects and delete calls
    mc,         \* frame of multi_copy_object_s3, with its futures
    bucket_mc,  \* backend seen by multi_copy_object_s3: copies made per task
    s3c,        \* frame of s3_client
    boto,       \* what s3_client did: validations, Config and client built
    lv,         \* frame of list_object_versions
    bucket_lv,  \* backend seen by list_object_versions: entries and requests
    dec,        \* frame of decompress_stream_to_file
    disk,       \* the file decompress_stream_to_file wrote
    dob,        \* frame of decompress_stream_to_object
    lh,         \* frame of get_object_legal_hold_s3
    bucket_lh,  \* backend seen by get_object_legal_hold_s3: holds and requests
    ls3,        \* frame of list_objects_s3
    bucket_ls3, \* backend seen by list_objects_s3: the listing and the requests
    zr,         \* frame of zstd_stream_reader
    zw          \* frame of zstd_stream_writer

vars == <<put, bucket_put, cp, bucket_cp, get, url, net, ls, bucket_ls,
          del, bucket_del, mc, bucket_mc, s3c, boto, lv, bucket_lv,
          dec, disk, dob, lh, bucket_lh, ls3, bucket_ls3, zr, zw>>
mcVars == <<mc, bucket_mc>>
listVars == <<ls, bucket_ls>>
delVars == <<del, bucket_del>>
putVars == <<put, bucket_put>>
copyVars == <<cp, bucket_cp>>
getVars == <<get, url, net>>
clientVars == <<s3c, boto>>
versionVars == <<lv, bucket_lv>>
decodeVars == <<dec, disk, dob>>
lockVars == <<lh, bucket_lh>>
list3Vars == <<ls3, bucket_ls3>>
zstdVars == <<zr, zw>>

(***************************************************************************)
(* Bounds of the model.                                                    *)
(***************************************************************************)
MaxRetries == 3     \* the retries argument ranges over MinRetries..MaxRetries
MaxAttempts == 4    \* attempts of one retry loop that its trace records (> MaxRetries)
MaxChunks == 3      \* a source stream is read in at most MaxChunks chunks
MaxObjects == 4     \* a listed bucket holds at most MaxObjects objects
MaxCalls == 5       \* cap on the listing requests of one call (> MaxObjects)
MaxKeys == 2500     \* delete_objects_s3 is given at most MaxKeys keys
MaxTasks == 3       \* multi_copy_object_s3 is given at most MaxTasks tasks
MaxVKeys == 2       \* keys of a versioned bucket
MaxVersions == 3    \* entries (versions and delete marker) of one key
MaxNameLen == 5     \* tokens of a file name
MaxThreads == 2     \* the threads argument ranges over 1..MaxThreads
MaxNest == 2        \* zstd writers around one raw stream

MinRetries == 0 - 1

(***************************************************************************)
(* Program constants.                                                      *)
(***************************************************************************)
multipart_size == 2^28

(***************************************************************************)
(* Values.                                                                 *)
(***************************************************************************)
None == "None"
ConnectionClosedError == "ConnectionClosedError"
OtherError == "OtherError"
NoError == "NoError"
Errors == {ConnectionClosedError, OtherError}
Outcomes == {NoError} \cup Errors

Min(a, b) == IF a < b THEN a ELSE b

Attempt == [e |-> "attempt", secs |-> 0]
Slept(n) == [e |-> "sleep", secs |-> n]

NAttempts(trace) == Cardinality({i \in DOMAIN trace : trace[i].e = "attempt"})
NSleeps(trace) == Cardinality({i \in DOMAIN trace : trace[i].e = "sleep"})

\* the start of one pass of a retry loop (lines 427 and 511), recorded in the
\* frame's trace; the trace keeps the first MaxAttempts passes and their sleeps
attempt(trace) ==
    IF NAttempts(trace) < MaxAttempts THEN Append(trace, Attempt) ELSE trace

\* time.sleep(n), recorded in the frame's trace after a recorded pass
sleep(trace, n) ==
    IF NSleeps(trace) < NAttempts(trace) THEN Append(trace, Slept(n)) ELSE trace

\* lines 437 and 517: counter = counter - 1.  The counter only decreases and
\* is only compared with 0 (lines 438 and 518), so every value below
\* MinCounter behaves as MinCounter does and is kept as MinCounter.
MinCounter == 0 - MaxAttempts
decrement(counter) == IF counter <= MinCounter THEN MinCounter ELSE counter - 1

(***************************************************************************)
(* Byte runs.  Bytes(chunks) is the byte content of a sequence of chunks   *)
(* written one after the other: empty chunks dropped, adjacent runs joined.*)
(***************************************************************************)
EmptyChunk(c) == c[1] >= c[2]

RECURSIVE Bytes(_)
Bytes(chunks) ==
    IF chunks = <<>> THEN <<>>
    ELSE LET rest == Bytes(Tail(chunks))
             c == Head(chunks)
         IN IF EmptyChunk(c) THEN rest
            ELSE IF rest /= <<>> /\ rest[1][1] = c[2]
                 THEN <<(<<c[1], rest[1][2]>>)>> \o Tail(rest)
                 ELSE <<c>> \o rest

\* the whole content of a stream of `size` bytes
Whole(size) == IF size = 0 THEN <<>> ELSE <<(<<0, size>>)>>

(***************************************************************************)
(* utils.determine_file_obj_size: tell, seek to the end, tell, seek back.  *)
(* A file object is [size, pos]; the result is the size and the file       *)
(* object as the function leaves it.                                       *)
(***************************************************************************)
determine_file_obj_size_no_seek_back(file_obj) ==
    LET atEnd == [file_obj EXCEPT !.pos = file_obj.size]
    IN [size |-> atEnd.pos, file_obj |-> atEnd]

determine_file_obj_size(file_obj) ==
    LET pos == file_obj.pos
        atEnd == [file_obj EXCEPT !.pos = file_obj.size]
        size == atEnd.pos
    IN [size |-> size, file_obj |-> [atEnd EXCEPT !.pos = pos]]

\* file_obj.read(chunk_size): the chunk read and the file object after it
read(file_obj, chunk_size) ==
    LET hi == Min(file_obj.pos + chunk_size, file_obj.size)
    IN [chunk |-> <<file_obj.pos, hi>>, file_obj |-> [file_obj EXCEPT !.pos = hi]]

\* no call has been made yet
Idle ==
    /\ put.pc = "idle" /\ cp.pc = "idle" /\ get.pc = "idle" /\ url.pc = "idle"
    /\ ls.pc = "idle" /\ del.pc = "idle" /\ mc.pc = "idle"
    /\ s3c.pc = "idle" /\ lv.pc = "idle" /\ dec.pc = "idle" /\ dob.pc = "idle"
    /\ lh.pc = "idle" /\ ls3.pc = "idle"
    /\ zr.pc = "idle" /\ zw.pc = "idle"

(***************************************************************************)
(* put_object_s3                                                           *)
(***************************************************************************)
Sizes == {0, 1, 524288, 524289, 10 * 2^20, 2^28 - 1, 2^28, 2^28 + 1, 300 * 2^20}
ChunkSizes == {524288, 2^27, 2^28}

put_idle ==
    [pc |-> "idle", metadata |-> None, content_type |-> None,
     object_legal_hold |-> FALSE, retries |-> 0, chunk_size |-> 0,
     counter |-> 0, extras |-> {}, obj_size |-> 0,
     transport_params |-> [client_kwargs |-> {}, multipart_upload |-> FALSE],
     file_obj |-> [size |-> 0, pos |-> 0], source_pos |-> 0,
     f |-> <<>>, chunk |-> <<0, 0>>, err |-> NoError, trace |-> <<>>]

bucket_put_init == [object |-> None, api |-> <<>>]

\* lines 409-415: the optional attributes of the upload
put_extras(metadata, content_type, object_legal_hold) ==
    (IF metadata /= None THEN {<<"Metadata", metadata>>} ELSE {})
    \cup (IF content_type /= None THEN {<<"ContentType", content_type>>} ELSE {})
    \cup (IF object_legal_hold THEN {<<"ObjectLockLegalHoldStatus", "ON">>} ELSE {})

use_multipart_at_threshold(obj_size) == obj_size >= multipart_size

\* line 419: the multipart threshold
use_multipart(obj_size) == obj_size > multipart_size

\* lines 419-424: a dict is the set of its <<key, value>> items
put_transport_params(obj_size, extras) ==
    IF use_multipart(obj_size)
    THEN [client_kwargs |-> {<<"S3.Client.create_multipart_upload", extras>>},
          multipart_upload |-> TRUE]
    ELSE [client_kwargs |-> {<<"S3.Client.put_object", extras>>},
          multipart_upload |-> FALSE]

retries_exhausted_late(counter) == counter < 0

\* lines 438 and 518: the retry budget is used up
retries_exhausted(counter) == counter = 0

put_except_any(fr, err) ==
    LET counter == decrement(fr.counter)
    IN IF retries_exhausted(counter)
       THEN [fr EXCEPT !.counter = counter, !.err = err, !.pc = "raised"]
       ELSE [fr EXCEPT !.counter = counter, !.err = NoError, !.pc = "open",
                       !.trace = sleep(fr.trace, 3)]

\* lines 435-441: the except clause of the retry loop, and the propagation
\* of every exception the clause does not name
put_except(fr, err) ==
    IF err = ConnectionClosedError
    THEN LET counter == decrement(fr.counter)
         IN IF retries_exhausted(counter)
            THEN [fr EXCEPT !.counter = counter, !.err = err, !.pc = "raised"]
            ELSE [fr EXCEPT !.counter = counter, !.err = NoError, !.pc = "open",
                            !.trace = sleep(fr.trace, 3)]
    ELSE [fr EXCEPT !.err = err, !.pc = "raised"]

\* lines 405-426: argument binding up to the start of the retry loop
put_object_s3_call ==
    /\ Idle
    /\ \E size \in Sizes, chunk_size \in ChunkSizes, pos \in {0, 1},
          retries \in MinRetries..MaxRetries,
          metadata \in {None, "dict"}, content_type \in {None, "str"},
          object_legal_hold \in BOOLEAN :
        /\ pos <= size
        /\ size <= MaxChunks * chunk_size
        /\ LET extras == put_extras(metadata, content_type, object_legal_hold)
               probe == determine_file_obj_size([size |-> size, pos |-> pos])
           IN put' = [put_idle EXCEPT
                        !.pc = "open", !.metadata = metadata,
                        !.content_type = content_type,
                        !.object_legal_hold = object_legal_hold,
                        !.retries = retries,
                        !.chunk_size = chunk_size, !.extras = extras,
                        !.obj_size = probe.size,
                        !.transport_params = put_transport_params(probe.size, extras),
                        !.file_obj = probe.file_obj, !.source_pos = pos,
                        !.counter = retries]
    /\ UNCHANGED <<bucket_put, copyVars, getVars, listVars, delVars, mcVars,
                 clientVars, versionVars, decodeVars, lockVars, list3Vars, zstdVars>>

\* line 429: smart_open.open(s3_url, 'wb', ...); a multipart writer creates
\* the upload when it is opened (bucket_put.api logs the requests of the
\* passes the trace records)
put_open ==
    /\ put.pc = "open"
    /\ \E out \in Outcomes :
        LET fr == [put EXCEPT !.trace = attempt(put.trace), !.f = <<>>]
        IN IF out = NoError
           THEN /\ put' = [fr EXCEPT !.pc = "read"]
                /\ bucket_put' =
                     IF put.transport_params.multipart_upload
                        /\ NAttempts(put.trace) < MaxAttempts
                     THEN [bucket_put EXCEPT !.api =
                             Append(@, [call |-> "create_multipart_upload",
                                        kwargs |-> put.extras])]
                     ELSE bucket_put
           ELSE /\ put' = put_except(fr, out)
                /\ UNCHANGED bucket_put
    /\ UNCHANGED <<copyVars, getVars, listVars, delVars, mcVars,
                 clientVars, versionVars, decodeVars, lockVars, list3Vars, zstdVars>>

\* lines 430-431 and 433: chunk = file_obj.read(chunk_size); while chunk
put_read ==
    /\ put.pc = "read"
    /\ LET r == read(put.file_obj, put.chunk_size)
       IN put' = [put EXCEPT !.chunk = r.chunk, !.file_obj = r.file_obj,
                             !.pc = IF EmptyChunk(r.chunk) THEN "close" ELSE "write"]
    /\ UNCHANGED <<bucket_put, copyVars, getVars, listVars, delVars, mcVars,
                 clientVars, versionVars, decodeVars, lockVars, list3Vars, zstdVars>>

\* line 432: f.write(chunk)
put_write ==
    /\ put.pc = "write"
    /\ \E out \in Outcomes :
        IF out = NoError
        THEN put' = [put EXCEPT !.f = Append(@, put.chunk), !.pc = "read"]
        ELSE put' = put_except(put, out)
    /\ UNCHANGED <<bucket_put, copyVars, getVars, listVars, delVars, mcVars,
                 clientVars, versionVars, decodeVars, lockVars, list3Vars, zstdVars>>

\* line 429, leaving the with block: the writer is closed and what was
\* written to it becomes the object; line 434: break
put_close ==
    /\ put.pc = "close"
    /\ \E out \in Outcomes :
        IF out = NoError
        THEN /\ put' = [put EXCEPT !.pc = "returned"]
             /\ bucket_put' =
                  [object |-> Bytes(put.f),
                   api |-> Append(bucket_put.api,
                      IF put.transport_params.multipart_upload
                      THEN [call |-> "complete_multipart_upload", kwargs |-> {}]
                      ELSE [call |-> "put_object", kwargs |-> put.extras])]
        ELSE /\ put' = put_except(put, out)
             /\ UNCHANGED bucket_put
    /\ UNCHANGED <<copyVars, getVars, listVars, delVars, mcVars,
                 clientVars, versionVars, decodeVars, lockVars, list3Vars, zstdVars>>

(***************************************************************************)
(* copy_object_s3                                                          *)
(***************************************************************************)
copy_idle ==
    [pc |-> "idle", retries |-> 0, counter |-> 0, resp |-> None,
     err |-> NoError, trace |-> <<>>]

\* lines 508-510
copy_begin(retries) ==
    [copy_idle EXCEPT !.pc = "copy", !.retries = retries, !.counter = retries]

\* lines 515-521, and the propagation of every other exception
copy_except(fr, err) ==
    IF err = ConnectionClosedError
    THEN LET counter == decrement(fr.counter)
         IN IF retries_exhausted(counter)
            THEN [fr EXCEPT !.counter = counter, !.err = err, !.pc = "raised"]
            ELSE [fr EXCEPT !.counter = counter, !.err = NoError,
                            !.trace = sleep(fr.trace, 3)]
    ELSE [fr EXCEPT !.err = err, !.pc = "raised"]

\* lines 511-530: one pass of the loop, s3.copy_object answering `out`
copy_attempt(fr, out) ==
    LET fr1 == [fr EXCEPT !.trace = attempt(fr.trace)]
    IN IF out = NoError
       THEN [fr1 EXCEPT !.resp = "resp", !.pc = "returned"]
       ELSE copy_except(fr1, out)

copy_object_s3_call ==
    /\ Idle
    /\ \E retries \in MinRetries..MaxRetries : cp' = copy_begin(retries)
    /\ UNCHANGED <<putVars, bucket_cp, getVars, listVars, delVars, mcVars,
                 clientVars, versionVars, decodeVars, lockVars, list3Vars, zstdVars>>

copy_object_s3_step ==
    /\ cp.pc = "copy"
    /\ \E out \in Outcomes :
        /\ cp' = copy_attempt(cp, out)
        /\ bucket_cp' = IF out = NoError THEN bucket_cp + 1 ELSE bucket_cp
    /\ UNCHANGED <<putVars, getVars, listVars, delVars, mcVars,
                 clientVars, versionVars, decodeVars, lockVars, list3Vars, zstdVars>>


(***************************************************************************)
(* Optional values whose type is not a string: <<>> is None, <<x>> is x.   *)
(***************************************************************************)
Absent == <<>>
Some(x) == <<x>>

(***************************************************************************)
(* utils.ConnectionConfig and utils.create_public_s3_url                   *)
(***************************************************************************)
RequiredFields ==
    {"service_name", "endpoint_url", "aws_access_key_id", "aws_secret_access_key"}
HttpUrls == {"https://s3.example.com"}

NoConfig == [is_dict |-> FALSE, fields |-> {}, endpoint_url |-> None]
ConnectionConfigs ==
    {NoConfig,
     [is_dict |-> TRUE, fields |-> RequiredFields,
      endpoint_url |-> "https://s3.example.com"],
     [is_dict |-> TRUE, fields |-> RequiredFields \ {"aws_secret_access_key"},
      endpoint_url |-> "https://s3.example.com"],
     [is_dict |-> TRUE, fields |-> RequiredFields, endpoint_url |-> "not a url"]}

ConnectionConfig_fields_only(connection_config) ==
    RequiredFields \subseteq connection_config.fields

\* utils.ConnectionConfig(**connection_config) validates (TRUE) or raises
ConnectionConfig(connection_config) ==
    /\ RequiredFields \subseteq connection_config.fields
    /\ connection_config.endpoint_url \in HttpUrls

b2_public_key_pattern == "{base_url}/{bucket}/{obj_key}"
contabo_public_key_pattern == "{base_url}:{bucket}/{obj_key}"
PublicUrls == {"https://b2.example.com/file", "https://eu2.contabostorage.com/abc"}
ContaboUrls == {"https://eu2.contabostorage.com/abc"}

\* a formatted URL is the pattern with the values that fill it
create_public_s3_url(base_url, bucket, obj_key) ==
    IF base_url \in ContaboUrls
    THEN [pattern |-> contabo_public_key_pattern, base_url |-> base_url,
          bucket |-> bucket, obj_key |-> obj_key]
    ELSE [pattern |-> b2_public_key_pattern, base_url |-> base_url,
          bucket |-> bucket, obj_key |-> obj_key]

NoUrl == [pattern |-> None, base_url |-> None, bucket |-> None, obj_key |-> None]

\* lines 132-146 and 206-221: 'bytes={start}-{end}', a bound that is None
\* formatted as the empty string
range_header(range_start, range_end) ==
    IF range_start /= Absent \/ range_end /= Absent
    THEN Some([start |-> range_start, end |-> range_end])
    ELSE Absent

(***************************************************************************)
(* url_to_stream                                                           *)
(***************************************************************************)
url_idle ==
    [pc |-> "idle", url |-> NoUrl, retries |-> 0, counter |-> 0,
     transport_params |-> [buffer_size |-> 0, timeout |-> 0, headers |-> Absent],
     file_obj |-> None, trace |-> <<>>]

\* lines 203-224
url_begin(u, range_start, range_end, chunk_size, retries, read_timeout) ==
    [url_idle EXCEPT
        !.pc = "open", !.url = u, !.retries = retries, !.counter = retries,
        !.transport_params =
            [buffer_size |-> chunk_size, timeout |-> read_timeout,
             headers |-> range_header(range_start, range_end)]]

url_retry_left_off_by_one(counter) == counter >= 0

\* line 231: another attempt is left
url_retry_left(counter) == counter > 0

\* lines 225-239: one pass of the loop, smart_open.open answering `out`
url_attempt(fr, out) ==
    LET fr1 == [fr EXCEPT !.trace = Append(fr.trace, Attempt)]
    IN IF out = NoError
       THEN [fr1 EXCEPT !.file_obj = "stream", !.pc = "returned"]
       ELSE LET counter == fr.counter - 1
            IN IF url_retry_left(counter)
               THEN [fr1 EXCEPT !.counter = counter, !.trace = sleep(fr1.trace, 3)]
               ELSE [fr1 EXCEPT !.counter = counter, !.file_obj = None,
                                !.pc = "returned"]

(***************************************************************************)
(* get_object_s3                                                           *)
(***************************************************************************)
get_idle ==
    [pc |-> "idle", s3 |-> None, connection_config |-> NoConfig,
     public_url |-> None, version_id |-> None, range_start |-> Absent,
     range_end |-> Absent, retries |-> 0,
     transport_params |-> [buffer_size |-> 0, version_id |-> None,
                           client_kwargs |-> Absent, client |-> None],
     range1 |-> Absent, file_obj |-> None, err |-> NoError]

net_init == [clients |-> 0, validations |-> 0, opens |-> <<>>]

get_public_path_any_version(public_url, version_id) == public_url /= None

get_public_path_or(public_url, version_id) == public_url /= None \/ version_id = None

\* line 149: the public-URL path is taken
get_public_path(public_url, version_id) == public_url /= None /\ version_id = None

\* line 154: the client path is taken
get_client_path(s3, connection_config) == s3 /= None \/ connection_config.is_dict

get_builds_client_always(s3) == TRUE

\* line 158: a client is built only when no s3 handle was supplied
get_builds_client(s3) == s3 = None

\* lines 126-129 and 155-164: transport_params of the client path
get_transport_params(chunk_size, version_id, range1, s3) ==
    [buffer_size |-> chunk_size, version_id |-> version_id,
     client_kwargs |-> range1, client |-> s3]

\* lines 126-174, up to the first call that reaches the network
get_object_s3_call ==
    /\ Idle
    /\ \E s3 \in {None, "s3"}, connection_config \in ConnectionConfigs,
          public_url \in {None} \cup PublicUrls, version_id \in {None, "v1"},
          range_start \in {Absent, Some(0)}, range_end \in {Absent, Some(9)},
          retries \in MinRetries..MaxRetries :
        LET fr == [get_idle EXCEPT
                     !.s3 = s3, !.connection_config = connection_config,
                     !.public_url = public_url, !.version_id = version_id,
                     !.range_start = range_start, !.range_end = range_end,
                     !.retries = retries,
                     !.range1 = range_header(range_start, range_end),
                     !.transport_params.buffer_size = 524288,
                     !.transport_params.version_id = version_id]
        IN IF get_public_path(public_url, version_id)
           THEN /\ get' = [fr EXCEPT !.pc = "url_to_stream"]
                /\ url' = url_begin(create_public_s3_url(public_url, "bucket", "obj_key"),
                                    range_start, range_end, 524288, retries, 120)
                /\ net' = net
           ELSE IF get_client_path(s3, connection_config)
           THEN IF get_builds_client(s3)
                THEN IF ConnectionConfig(connection_config)
                     THEN /\ get' = [fr EXCEPT
                                !.pc = "open",
                                !.transport_params =
                                    get_transport_params(524288, version_id, fr.range1,
                                                         "s3_client(connection_config)")]
                          /\ net' = [net EXCEPT !.validations = 2, !.clients = 1]
                          /\ url' = url
                     ELSE /\ get' = [fr EXCEPT !.pc = "raised", !.err = "ValidationError"]
                          /\ net' = [net EXCEPT !.validations = 1]
                          /\ url' = url
                ELSE /\ get' = [fr EXCEPT
                           !.pc = "open",
                           !.transport_params =
                               get_transport_params(524288, version_id, fr.range1, s3)]
                     /\ UNCHANGED <<url, net>>
           ELSE /\ get' = [fr EXCEPT !.pc = "raised", !.err = "TypeError"]
                /\ UNCHANGED <<url, net>>
    /\ UNCHANGED <<putVars, copyVars, listVars, delVars, mcVars,
                 clientVars, versionVars, decodeVars, lockVars, list3Vars, zstdVars>>

get_open_except_narrow(fr, out) ==
    IF out = NoError THEN [fr EXCEPT !.pc = "returned", !.file_obj = "stream"]
    ELSE IF out = ConnectionClosedError
    THEN [fr EXCEPT !.pc = "returned", !.file_obj = None]
    ELSE [fr EXCEPT !.pc = "raised", !.err = out]

\* lines 166-171 and 176: try smart_open.open / except Exception, return
get_open_except(fr, out) ==
    IF out = NoError THEN [fr EXCEPT !.pc = "returned", !.file_obj = "stream"]
    ELSE [fr EXCEPT !.pc = "returned", !.file_obj = None]

\* lines 166-171 and 176: the single open of the client path
get_open ==
    /\ get.pc = "open"
    /\ \E out \in Outcomes :
        /\ get' = get_open_except(get, out)
        /\ net' = [net EXCEPT !.opens =
                     Append(@, [how |-> "s3", out |-> out,
                                client |-> get.transport_params.client,
                                version_id |-> get.transport_params.version_id])]
    /\ UNCHANGED <<putVars, copyVars, url, listVars, delVars, mcVars,
                 clientVars, versionVars, decodeVars, lockVars, list3Vars, zstdVars>>

\* url_to_stream called directly
url_to_stream_call ==
    /\ Idle
    /\ \E u \in PublicUrls, range_start \in {Absent, Some(0)},
          range_end \in {Absent, Some(9)}, retries \in MinRetries..MaxRetries :
        url' = url_begin(create_public_s3_url(u, "bucket", "obj_key"),
                         range_start, range_end, 524288, retries, 120)
    /\ UNCHANGED <<putVars, copyVars, get, net, listVars, delVars, mcVars,
                 clientVars, versionVars, decodeVars, lockVars, list3Vars, zstdVars>>

\* lines 225-239; when get_object_s3 is the caller, its lines 152 and 176
url_to_stream_step ==
    /\ url.pc = "open"
    /\ NAttempts(url.trace) < MaxAttempts
    /\ \E out \in Outcomes :
        /\ url' = url_attempt(url, out)
        /\ net' = [net EXCEPT !.opens =
                     Append(@, [how |-> "http", out |-> out, client |-> None,
                                version_id |-> None])]
        /\ get' = IF get.pc = "url_to_stream" /\ url'.pc = "returned"
                  THEN [get EXCEPT !.pc = "returned", !.file_obj = url'.file_obj]
                  ELSE get
    /\ UNCHANGED <<putVars, copyVars, listVars, delVars, mcVars,
                 clientVars, versionVars, decodeVars, lockVars, list3Vars, zstdVars>>

(***************************************************************************)
(* utils.build_params.  A dict of request parameters is a record whose     *)
(* missing keys are None (strings) or Absent (keys, numbers, tokens).      *)
(* Object keys are 1, 2, ... in listing order; no key is falsy.            *)
(***************************************************************************)
no_params ==
    [Bucket |-> None, StartAfter |-> Absent, Key |-> Absent, Prefix |-> None,
     Delimiter |-> None, MaxKeys |-> Absent, KeyMarker |-> Absent,
     ContinuationToken |-> Absent]

\* Python truthiness of an optional number / an optional string
TruthyNum(x) == x /= Absent /\ x[1] /= 0
TruthyStr(x) == x /= None /\ x /= ""

build_params(bucket, obj_key, start_after, prefix, delimiter, max_keys, key_marker) ==
    [no_params EXCEPT
        !.Bucket = bucket,
        !.StartAfter = IF TruthyNum(start_after) THEN start_after ELSE Absent,
        !.Key = IF TruthyNum(obj_key) THEN obj_key ELSE Absent,
        !.Prefix = IF TruthyStr(prefix) THEN prefix ELSE None,
        !.Delimiter = IF TruthyStr(delimiter) THEN delimiter ELSE None,
        !.MaxKeys = IF TruthyNum(max_keys) THEN max_keys ELSE Absent,
        !.KeyMarker = IF TruthyNum(key_marker) THEN key_marker ELSE Absent]

(***************************************************************************)
(* The backend's list_objects_v2: the bucket holds the keys 1..n; a        *)
(* request is answered with the keys after its cursor, at most MaxKeys of  *)
(* them and at most the backend's own page size; Contents is missing from  *)
(* an empty page, NextContinuationToken from the last page.  A token is    *)
(* the number of keys already listed.                                      *)
(***************************************************************************)
Keys(lo, hi) == [i \in 1..(hi - lo + 1) |-> lo + i - 1]

s3_list_objects_v2(bucket, params) ==
    LET after == IF params.ContinuationToken /= Absent THEN params.ContinuationToken[1]
                 ELSE IF params.StartAfter /= Absent THEN params.StartAfter[1]
                 ELSE 0
        page == IF params.MaxKeys /= Absent
                THEN Min(params.MaxKeys[1], bucket.page_size)
                ELSE bucket.page_size
        last == Min(after + page, bucket.n)
    IN [Contents |-> IF last > after THEN Some(Keys(after + 1, last)) ELSE Absent,
        NextContinuationToken |-> IF last < bucket.n /\ last > after
                                  THEN Some(last) ELSE Absent]

(***************************************************************************)
(* list_objects                                                            *)
(***************************************************************************)
list_idle ==
    [pc |-> "idle", start_after |-> Absent, max_keys |-> Absent,
     token_arg |-> Absent, params |-> no_params,
     continuation_token |-> Absent, js |-> <<>>]

bucket_ls_init == [n |-> 0, page_size |-> 1, requests |-> <<>>]

\* lines 598-603
list_objects_call ==
    /\ Idle
    /\ \E n \in 0..MaxObjects, page_size \in 1..MaxObjects,
          start_after \in {Absent, Some(1)},
          max_keys \in {Absent} \cup {Some(k) : k \in 0..MaxObjects},
          continuation_token \in {Absent, Some(1)} :
        /\ n >= 1 \/ (start_after = Absent /\ continuation_token = Absent)
        /\ LET params == build_params("bucket", Absent, start_after, None, None,
                                      max_keys, Absent)
           IN ls' = [list_idle EXCEPT
                       !.pc = "loop", !.start_after = start_after,
                       !.max_keys = max_keys, !.token_arg = continuation_token,
                       !.continuation_token = continuation_token,
                       !.params = IF continuation_token /= Absent
                                  THEN [params EXCEPT !.ContinuationToken =
                                                          continuation_token]
                                  ELSE params]
        /\ bucket_ls' = [n |-> n, page_size |-> page_size, requests |-> <<>>]
    /\ UNCHANGED <<putVars, copyVars, getVars, delVars, mcVars,
                 clientVars, versionVars, decodeVars, lockVars, list3Vars, zstdVars>>

\* lines 604-616: one pass of the loop
list_objects_step ==
    /\ ls.pc = "loop"
    /\ Len(bucket_ls.requests) < MaxCalls
    /\ LET js1 == s3_list_objects_v2(bucket_ls, ls.params)
       IN /\ bucket_ls' = [bucket_ls EXCEPT !.requests = Append(@, ls.params)]
          /\ ls' = IF js1.Contents /= Absent
                   THEN IF js1.NextContinuationToken /= Absent
                        THEN [ls EXCEPT !.js = @ \o js1.Contents[1],
                                        !.continuation_token = js1.NextContinuationToken]
                        ELSE [ls EXCEPT !.js = @ \o js1.Contents[1], !.pc = "returned"]
                   ELSE [ls EXCEPT !.pc = "returned"]
    /\ UNCHANGED <<putVars, copyVars, getVars, delVars, mcVars,
                 clientVars, versionVars, decodeVars, lockVars, list3Vars, zstdVars>>

(***************************************************************************)
(* utils.chunks and delete_objects_s3                                      *)
(***************************************************************************)
chunks_drop_remainder(lst, n_items) ==
    [i \in 1..(Len(lst) \div n_items) |->
        SubSeq(lst, (i - 1) * n_items + 1, i * n_items)]

\* the chunks the generator yields, in order
chunks(lst, n_items) ==
    LET lst_len == Len(lst)
        n == lst_len \div n_items
        full == [i \in 1..n |-> SubSeq(lst, (i - 1) * n_items + 1, i * n_items)]
        pos == n * n_items
        remainder == lst_len % n_items
    IN IF remainder > 0
       THEN Append(full, SubSeq(lst, pos + 1, pos + remainder))
       ELSE full

\* line 824: the chunks of one call
delete_chunks(obj_keys) == chunks(obj_keys, 1000)

del_idle == [pc |-> "idle", obj_keys |-> <<>>, i |-> 0, err |-> NoError]

bucket_del_init == [objects |-> {}, calls |-> <<>>]

Range(seq) == {seq[i] : i \in DOMAIN seq}

delete_swallow(fr, err) == [fr EXCEPT !.i = @ + 1]

\* line 825: nothing catches what s3.delete_objects raises
delete_raise(fr, err) == [fr EXCEPT !.pc = "raised", !.err = err]

\* line 824, before the first chunk is asked for
delete_objects_s3_call ==
    /\ Idle
    /\ \E n \in 0..MaxKeys :
        /\ del' = [del_idle EXCEPT !.pc = "loop", !.obj_keys = Keys(1, n)]
        /\ bucket_del' = [objects |-> 1..n, calls |-> <<>>]
    /\ UNCHANGED <<putVars, copyVars, getVars, listVars, mcVars,
                 clientVars, versionVars, decodeVars, lockVars, list3Vars, zstdVars>>

\* lines 824-825: the next chunk and its delete_objects call, or the end of
\* the loop; a call that raises has deleted nothing
delete_objects_s3_step ==
    /\ del.pc = "loop"
    /\ LET chs == delete_chunks(del.obj_keys)
       IN IF del.i = Len(chs)
          THEN /\ del' = [del EXCEPT !.pc = "returned"]
               /\ UNCHANGED bucket_del
          ELSE \E out \in {NoError, OtherError} :
                 LET keys == chs[del.i + 1]
                     call == [Objects |-> keys, Quiet |-> TRUE, out |-> out]
                 IN IF out = NoError
                    THEN /\ del' = [del EXCEPT !.i = @ + 1]
                         /\ bucket_del' = [objects |-> bucket_del.objects \ Range(keys),
                                           calls |-> Append(bucket_del.calls, call)]
                    ELSE /\ del' = delete_raise(del, out)
                         /\ bucket_del' = [bucket_del EXCEPT !.calls = Append(@, call)]
    /\ UNCHANGED <<putVars, copyVars, getVars, listVars, mcVars,
                 clientVars, versionVars, decodeVars, lockVars, list3Vars, zstdVars>>

(***************************************************************************)
(* multi_copy_object_s3.  A future is the task's key dict, its state in    *)
(* the executor (pending in the work queue, running on a worker, done) and *)
(* the frame of its copy_object_s3 call.                                   *)
(***************************************************************************)
mc_idle ==
    [pc |-> "idle", source_dest_keys |-> <<>>, keys |-> <<>>,
     keys_obj |-> None, retries |-> 0, threads |-> 0, futures |-> <<>>, resp_list |-> <<>>, err |-> NoError]

\* a key dict as the caller gives it
KeyDict(i) ==
    [source_key |-> i, dest_key |-> i, s3 |-> None, source_bucket |-> None,
     dest_bucket |-> None]

\* lines 561-563
mc_fill_key(key, s3, source_bucket, dest_bucket) ==
    [key EXCEPT !.s3 = s3, !.source_bucket = source_bucket,
                !.dest_bucket = dest_bucket]

deepcopy_same_object(fr) ==
    [fr EXCEPT !.keys = fr.source_dest_keys, !.keys_obj = "source_dest_keys"]

\* line 556: keys is bound to a new list of new dicts that equal the
\* caller's; keys_obj names the object that keys is bound to
deepcopy(fr) == [fr EXCEPT !.keys = fr.source_dest_keys, !.keys_obj = "copy"]

\* lines 561-563 as a store: the dict is reached through keys, and through
\* source_dest_keys too when both names are bound to the same object
mc_setitems(fr, i, key) ==
    [fr EXCEPT !.keys[i] = key,
               !.source_dest_keys[i] =
                   IF fr.keys_obj = "source_dest_keys" THEN key ELSE @]

\* line 484 as called at line 564: copy_object_s3(**key) binds retries to the
\* entry of the key dict when there is one, to its default otherwise
copy_object_s3_kwargs(key) ==
    copy_begin(IF "retries" \in DOMAIN key THEN key.retries ELSE 3)

Running(futures) == {i \in DOMAIN futures : futures[i].state = "running"}
Pending(futures) == {i \in DOMAIN futures : futures[i].state = "pending"}
AllDone_or_first_exception(futures) ==
    \/ \A i \in DOMAIN futures : futures[i].state = "done"
    \/ \E i \in DOMAIN futures : futures[i].fr.pc = "raised"
AllDone(futures) == \A i \in DOMAIN futures : futures[i].state = "done"
Failed(futures) == {i \in DOMAIN futures : futures[i].fr.pc = "raised"}

\* the lists that hold every element of the set S once
Orders(S) ==
    {p \in [1..Cardinality(S) -> S] : \A i, j \in DOMAIN p : p[i] = p[j] => i = j}

mc_collect_successes(fr) ==
    LET ok == {i \in DOMAIN fr.futures : fr.futures[i].fr.pc = "returned"}
    IN {[fr EXCEPT !.pc = "returned", !.resp_list = r] : r \in Orders(ok)}

\* lines 566-570: runs[0] is the set of the done futures; r.result() raises
\* what the task raised; the set is iterated in no particular order.  The
\* response of a task is named by the task's index
mc_collect(fr) ==
    IF Failed(fr.futures) /= {}
    THEN {[fr EXCEPT !.pc = "raised", !.err = fr.futures[i].fr.err] :
            i \in Failed(fr.futures)}
    ELSE {[fr EXCEPT !.pc = "returned", !.resp_list = p] :
            p \in Orders(DOMAIN fr.futures)}

\* line 556
multi_copy_object_s3_call ==
    /\ Idle
    /\ \E k \in 0..MaxTasks, retries \in MinRetries..MaxRetries,
          threads \in 1..MaxThreads :
        /\ mc' = deepcopy([mc_idle EXCEPT
                    !.pc = "submit", !.retries = retries, !.threads = threads,
                    !.source_dest_keys = [i \in 1..k |-> KeyDict(i)]])
        /\ bucket_mc' = [i \in 1..k |-> 0]
    /\ UNCHANGED <<putVars, copyVars, getVars, listVars, delVars,
                 clientVars, versionVars, decodeVars, lockVars, list3Vars, zstdVars>>

\* lines 560-565: one pass of the for loop; line 566 once every key is
\* submitted
mc_submit ==
    /\ mc.pc = "submit"
    /\ LET i == Len(mc.futures) + 1
       IN IF i > Len(mc.keys)
          THEN mc' = [mc EXCEPT !.pc = "wait"]
          ELSE LET key == mc_fill_key(mc.keys[i], "s3", "source_bucket",
                                      "dest_bucket")
               IN mc' = [mc_setitems(mc, i, key) EXCEPT
                           !.futures = Append(@, [key |-> key, state |-> "pending",
                                                   fr |-> copy_idle])]
    /\ UNCHANGED <<putVars, copyVars, getVars, listVars, delVars, bucket_mc,
                 clientVars, versionVars, decodeVars, lockVars, list3Vars, zstdVars>>

worker_free_one_more(fr) == Cardinality(Running(fr.futures)) <= fr.threads

\* line 558: ThreadPoolExecutor(max_workers=threads) has a worker to spare
\* while fewer than `threads` work items are running
worker_free(fr) == Cardinality(Running(fr.futures)) < fr.threads

\* line 558: a worker of the pool, of which there are at most `threads`,
\* takes the oldest work item of the queue and calls copy_object_s3(**key)
mc_worker_start ==
    /\ mc.pc \in {"submit", "wait"}
    /\ Pending(mc.futures) /= {}
    /\ worker_free(mc)
    /\ LET i == CHOOSE i \in Pending(mc.futures) :
                    \A j \in Pending(mc.futures) : i <= j
       IN mc' = [mc EXCEPT !.futures[i].state = "running",
                           !.futures[i].fr = copy_object_s3_kwargs(mc.futures[i].key)]
    /\ UNCHANGED <<putVars, copyVars, getVars, listVars, delVars, bucket_mc,
                 clientVars, versionVars, decodeVars, lockVars, list3Vars, zstdVars>>

\* lines 511-530 run by a worker: one pass of the retry loop of a task
mc_worker_step ==
    /\ mc.pc \in {"submit", "wait"}
    /\ \E i \in Running(mc.futures), out \in Outcomes :
        LET fr == copy_attempt(mc.futures[i].fr, out)
        IN /\ mc' = [mc EXCEPT
                       !.futures[i].fr = fr,
                       !.futures[i].state = IF fr.pc \in {"returned", "raised"}
                                            THEN "done" ELSE "running"]
           /\ bucket_mc' = IF out = NoError
                           THEN [bucket_mc EXCEPT ![i] = @ + 1] ELSE bucket_mc
    /\ UNCHANGED <<putVars, copyVars, getVars, listVars, delVars,
                 clientVars, versionVars, decodeVars, lockVars, list3Vars, zstdVars>>

\* lines 566-570: concurrent.futures.wait returns once every future is done
mc_join ==
    /\ mc.pc = "wait"
    /\ AllDone(mc.futures)
    /\ \E fr \in mc_collect(mc) : mc' = fr
    /\ UNCHANGED <<putVars, copyVars, getVars, listVars, delVars, bucket_mc,
                 clientVars, versionVars, decodeVars, lockVars, list3Vars, zstdVars>>

(***************************************************************************)
(* s3_client                                                               *)
(***************************************************************************)
\* the keys of a nested 'config' block: the three that s3_client sets
\* (line 74) and two that it does not name
ConfigKeys ==
    {"max_pool_connections", "retries", "read_timeout",
     "signature_version", "connect_timeout"}

\* a dict over ConfigKeys maps each key to Absent (not in the dict) or Some(v)
ConfigValue(k) ==
    CASE k = "max_pool_connections" -> Some(10)
      [] k = "retries" -> Some([mode |-> "standard", max_attempts |-> 1])
      [] k = "read_timeout" -> Some(60)
      [] k = "signature_version" -> Some("s3")
      [] k = "connect_timeout" -> Some(5)
NestedConfigs ==
    {[k \in ConfigKeys |-> IF k \in S THEN ConfigValue(k) ELSE Absent] :
        S \in SUBSET ConfigKeys}

\* the connection_config dicts given to s3_client
ClientConfigs ==
    [fields : SUBSET RequiredFields,
     endpoint_url : {"https://s3.example.com", "not a url"},
     config : {Absent} \cup {Some(d) : d \in NestedConfigs}]

\* lines 74 and 83: the settings made from the call-time arguments
tuning(max_pool_connections, max_attempts, retry_mode, read_timeout) ==
    [k \in ConfigKeys |->
        CASE k = "max_pool_connections" -> Some(max_pool_connections)
          [] k = "retries" ->
                Some([mode |-> retry_mode, max_attempts |-> max_attempts])
          [] k = "read_timeout" -> Some(read_timeout)
          [] OTHER -> Absent]

update_keep_existing(d, e) ==
    [k \in DOMAIN d |-> IF d[k] /= Absent THEN d[k] ELSE e[k]]

\* line 74: d.update(e), every key of e replaces the one in d
update(d, e) == [k \in DOMAIN d |-> IF e[k] /= Absent THEN e[k] ELSE d[k]]

s3c_idle ==
    [pc |-> "idle",
     connection_config |->
        [fields |-> {}, endpoint_url |-> None, config |-> Absent],
     max_pool_connections |-> 30, max_attempts |-> 3,
     retry_mode |-> "adaptive", read_timeout |-> 120,
     s3 |-> None, err |-> NoError]

\* validations made, boto3.session.Config / botocore.config.Config objects
\* built (their keyword arguments), boto3.client calls (their keyword
\* arguments)
boto_init == [validations |-> 0, Config |-> <<>>, client |-> <<>>]

\* line 46: argument binding
s3_client_call ==
    /\ Idle
    /\ \E connection_config \in ClientConfigs,
          max_pool_connections \in {30, 10}, max_attempts \in {3, 1},
          retry_mode \in {"adaptive", "standard"}, read_timeout \in {120, 60} :
        s3c' = [s3c_idle EXCEPT
                  !.pc = "validate", !.connection_config = connection_config,
                  !.max_pool_connections = max_pool_connections,
                  !.max_attempts = max_attempts, !.retry_mode = retry_mode,
                  !.read_timeout = read_timeout]
    /\ UNCHANGED <<boto, putVars, copyVars, getVars, listVars, delVars, mcVars,
                   versionVars, decodeVars, lockVars, list3Vars, zstdVars>>

\* line 68: _ = utils.ConnectionConfig(**connection_config)
s3_client_validate ==
    /\ s3c.pc = "validate"
    /\ boto' = [boto EXCEPT !.validations = @ + 1]
    /\ s3c' = IF ConnectionConfig(s3c.connection_config)
              THEN [s3c EXCEPT !.pc = "build"]
              ELSE [s3c EXCEPT !.pc = "raised", !.err = "ValidationError"]
    /\ UNCHANGED <<putVars, copyVars, getVars, listVars, delVars, mcVars,
                   versionVars, decodeVars, lockVars, list3Vars, zstdVars>>

\* lines 70-85: the Config object is built from the nested block updated with
\* the call-time settings (72-75) or from the call-time settings alone (83),
\* and boto3.client is called with it and the rest of the copied dict
s3_client_build ==
    /\ s3c.pc = "build"
    /\ LET s3_config == s3c.connection_config
           settings == tuning(s3c.max_pool_connections, s3c.max_attempts,
                              s3c.retry_mode, s3c.read_timeout)
           config0 == IF s3_config.config /= Absent
                      THEN update(s3_config.config[1], settings)
                      ELSE settings
       IN /\ boto' = [boto EXCEPT
                        !.Config = Append(@, config0),
                        !.client = Append(@, [fields |-> s3_config.fields,
                                              endpoint_url |-> s3_config.endpoint_url,
                                              config |-> config0])]
          /\ s3c' = [s3c EXCEPT !.pc = "returned", !.s3 = "s3"]
    /\ UNCHANGED <<putVars, copyVars, getVars, listVars, delVars, mcVars,
                   versionVars, decodeVars, lockVars, list3Vars, zstdVars>>

(***************************************************************************)
(* The backend's list_object_versions: the bucket holds, for each key k,   *)
(* counts[k] entries, newest first (VersionId 1); the newest entry of a    *)
(* key in `deleted` is a delete marker.  A request is answered with the    *)
(* entries that follow its markers, at most MaxKeys of them and at most    *)
(* the backend's own page size, split into Versions and DeleteMarkers (a   *)
(* list that would be empty is missing); a truncated answer names its last *)
(* entry in NextKeyMarker and NextVersionIdMarker.  A request that names a *)
(* KeyMarker and no VersionIdMarker is answered from the first entry of    *)
(* the next key.                                                           *)
(***************************************************************************)
RECURSIVE VersionEntries(_, _, _)
VersionEntries(counts, deleted, k) ==
    IF k > Len(counts) THEN <<>>
    ELSE [v \in 1..counts[k] |->
            [Key |-> k, VersionId |-> v,
             IsDeleteMarker |-> (k \in deleted /\ v = 1)]]
         \o VersionEntries(counts, deleted, k + 1)

IsVersion(e) == ~e.IsDeleteMarker
IsMarker(e) == e.IsDeleteMarker

s3_list_object_versions(bucket, params) ==
    LET all == VersionEntries(bucket.counts, bucket.deleted, 1)
        skipped == IF params.KeyMarker = Absent THEN 0
                   ELSE Cardinality({i \in DOMAIN all :
                                        all[i].Key <= params.KeyMarker[1]})
        page == IF params.MaxKeys /= Absent
                THEN Min(params.MaxKeys[1], bucket.page_size)
                ELSE bucket.page_size
        last == Min(skipped + page, Len(all))
        entries == SubSeq(all, skipped + 1, last)
        versions == SelectSeq(entries, IsVersion)
        markers == SelectSeq(entries, IsMarker)
        truncated == last < Len(all) /\ last > skipped
    IN [Versions |-> IF versions = <<>> THEN Absent ELSE Some(versions),
        DeleteMarkers |-> IF markers = <<>> THEN Absent ELSE Some(markers),
        NextKeyMarker |-> IF truncated THEN Some(all[last].Key) ELSE Absent,
        NextVersionIdMarker |->
            IF truncated THEN Some(all[last].VersionId) ELSE Absent]

(***************************************************************************)
(* list_object_versions                                                    *)
(***************************************************************************)
lv_idle ==
    [pc |-> "idle", start_after |-> Absent, max_keys |-> Absent,
     delete_markers |-> FALSE, params |-> no_params, js |-> <<>>, dm |-> <<>>]

bucket_lv_init ==
    [counts |-> <<>>, deleted |-> {}, page_size |-> 1, responses |-> <<>>]

\* line 656
list_object_versions_call ==
    /\ Idle
    /\ \E n \in 0..MaxVKeys, page_size \in 1..(MaxVersions + 1),
          start_after \in {Absent, Some(1)},
          max_keys \in {Absent, Some(0), Some(2)},
          delete_markers \in BOOLEAN :
        \E counts \in [1..n -> 1..MaxVersions], deleted \in SUBSET (1..n) :
            /\ lv' = [lv_idle EXCEPT
                        !.pc = "loop", !.start_after = start_after,
                        !.max_keys = max_keys, !.delete_markers = delete_markers,
                        !.params = build_params("bucket", Absent, Absent, None,
                                                None, max_keys, start_after)]
            /\ bucket_lv' = [bucket_lv_init EXCEPT
                               !.counts = counts, !.deleted = deleted,
                               !.page_size = page_size]
    /\ UNCHANGED <<putVars, copyVars, getVars, listVars, delVars, mcVars,
                   clientVars, decodeVars, lockVars, list3Vars, zstdVars>>

\* lines 660-677: one pass of the loop; leaving the loop, the function
\* returns js, or js and dm
list_object_versions_step ==
    /\ lv.pc = "loop"
    /\ Len(bucket_lv.responses) < MaxCalls
    /\ LET js1 == s3_list_object_versions(bucket_lv, lv.params)
       IN /\ bucket_lv' = [bucket_lv EXCEPT !.responses = Append(@, js1)]
          /\ lv' =
               IF js1.Versions /= Absent
               THEN LET fr == [lv EXCEPT
                                 !.js = @ \o js1.Versions[1],
                                 !.dm = IF js1.DeleteMarkers /= Absent
                                        THEN @ \o js1.DeleteMarkers[1] ELSE @]
                    IN IF js1.NextKeyMarker /= Absent
                       THEN [fr EXCEPT !.params.KeyMarker = js1.NextKeyMarker]
                       ELSE [fr EXCEPT !.pc = "returned"]
               ELSE [lv EXCEPT !.pc = "returned"]
    /\ UNCHANGED <<putVars, copyVars, getVars, listVars, delVars, mcVars,
                   clientVars, decodeVars, lockVars, list3Vars, zstdVars>>

(***************************************************************************)
(* Paths and compressed streams.  A path is its parent's directory names   *)
(* and its file name; a name is a sequence of tokens, "." one character    *)
(* and every other token a run of characters without a dot.  The content   *)
(* of a stream is the byte runs [lo, hi) of a source under the             *)
(* compression layers applied to them, outermost first.                    *)
(***************************************************************************)
PathTokens == {"a", ".", "zst", "gz"}
Names == UNION {[1..n -> PathTokens] : n \in 1..MaxNameLen}
Paths == [parent : {<<>>, <<"dir">>}, name : Names]
NoPath == [parent |-> <<>>, name |-> <<>>]

\* str.rfind('.') of pathlib's suffix and stem, counted from 1 (0: no dot)
rfind_dot(name) ==
    LET dots == {i \in DOMAIN name : name[i] = "."}
    IN IF dots = {} THEN 0 ELSE CHOOSE i \in dots : \A j \in dots : j <= i

suffix_leading_dot(name) ==
    LET i == rfind_dot(name)
    IN IF 0 < i /\ i < Len(name) THEN SubSeq(name, i, Len(name)) ELSE <<>>

\* lines 321 and 327: PurePath.suffix, the part of the name from its last
\* dot on, when that dot is neither the first nor the last character
suffix(name) ==
    LET i == rfind_dot(name)
    IN IF 1 < i /\ i < Len(name) THEN SubSeq(name, i, Len(name)) ELSE <<>>

\* lines 322 and 328: PurePath.stem, the name without its suffix
stem(name) ==
    LET i == rfind_dot(name)
    IN IF 1 < i /\ i < Len(name) THEN SubSeq(name, 1, i - 1) ELSE name

\* line 332: str(path), the directory names and the name joined by "/"
RECURSIVE join(_)
join(parts) ==
    IF parts = <<>> THEN <<>> ELSE <<Head(parts), "/">> \o join(Tail(parts))
str(path) == join(path.parent) \o path.name

Layers == {<<>>, <<"zstd">>, <<"gzip">>, <<"zstd", "gzip">>, <<"gzip", "zstd">>}
\* the streams handed to the decompression functions, at their start; only
\* an uncompressed stream can be empty
Streams ==
    {fo \in [layers : Layers, size : {0, 1, 524289}, pos : {0}] :
        fo.size = 0 => fo.layers = <<>>}
NoStream == [layers |-> <<>>, size |-> 0, pos |-> 0]
NoContent == [layers |-> <<>>, bytes |-> <<>>]

\* the chunks of the loop chunk = file_obj.read(chunk_size); while chunk
\* (lines 289-292 and 366-369)
RECURSIVE read_chunks(_, _)
read_chunks(file_obj, chunk_size) ==
    LET r == read(file_obj, chunk_size)
    IN IF EmptyChunk(r.chunk) THEN <<>>
       ELSE <<r.chunk>> \o read_chunks(r.file_obj, chunk_size)

\* lines 288-292: what stream_to_file writes to the file
stream_to_file(file_obj, chunk_size) ==
    [layers |-> file_obj.layers, bytes |-> Bytes(read_chunks(file_obj, chunk_size))]

\* lines 325 and 330-331 (357 and 361-362): the stream read to its end
\* through a zstd or gzip decoder; the decoder raises on a stream that is
\* not in its format, and writes nothing for an empty stream
decode(codec, file_obj) ==
    IF file_obj.size = 0
    THEN [err |-> NoError, content |-> NoContent]
    ELSE IF file_obj.layers /= <<>> /\ Head(file_obj.layers) = codec
         THEN [err |-> NoError,
               content |-> [layers |-> Tail(file_obj.layers),
                            bytes |-> Whole(file_obj.size)]]
         ELSE [err |-> "DecodeError", content |-> NoContent]

(***************************************************************************)
(* decompress_stream_to_file                                               *)
(***************************************************************************)
dec_idle ==
    [pc |-> "idle", file_obj |-> NoStream, file_path1 |-> NoPath,
     chunk_size |-> 0, file_path2 |-> NoPath, result |-> <<>>, err |-> NoError]

disk_init == [path |-> NoPath, content |-> NoContent]

\* lines 295 and 318: argument binding, file_path1 = pathlib.Path(file_path)
decompress_stream_to_file_call ==
    /\ Idle
    /\ \E file_obj \in Streams, file_path \in Paths :
        dec' = [dec_idle EXCEPT !.pc = "suffix", !.file_obj = file_obj,
                                !.file_path1 = file_path, !.chunk_size = 524288]
    /\ UNCHANGED <<disk, dob, putVars, copyVars, getVars, listVars, delVars,
                   mcVars, clientVars, versionVars, lockVars, list3Vars, zstdVars>>

\* lines 321-334: the branch chosen by the suffix, the file written, the
\* path returned
decompress_stream_to_file_write ==
    /\ dec.pc = "suffix"
    /\ LET file_path1 == dec.file_path1
           stripped == [file_path1 EXCEPT !.name = stem(file_path1.name)]
           codec == IF suffix(file_path1.name) = <<".", "zst">> THEN "zstd"
                    ELSE IF suffix(file_path1.name) = <<".", "gz">> THEN "gzip"
                    ELSE None
           file_path2 == IF codec = None THEN file_path1 ELSE stripped
           out == IF codec = None
                  THEN [err |-> NoError,
                        content |-> stream_to_file(dec.file_obj, dec.chunk_size)]
                  ELSE decode(codec, dec.file_obj)
       IN /\ disk' = [path |-> file_path2, content |-> out.content]
          /\ dec' = IF out.err = NoError
                    THEN [dec EXCEPT !.pc = "returned", !.file_path2 = file_path2,
                                     !.result = str(file_path2)]
                    ELSE [dec EXCEPT !.pc = "raised", !.file_path2 = file_path2,
                                     !.err = out.err]
    /\ UNCHANGED <<dob, putVars, copyVars, getVars, listVars, delVars,
                   mcVars, clientVars, versionVars, lockVars, list3Vars, zstdVars>>

(***************************************************************************)
(* decompress_stream_to_object                                             *)
(***************************************************************************)
Compressions == {None, "zstd", "gzip", "ZSTD", "Gzip", "lz4"}

\* lines 354 and 359: str.lower()
lower(s) ==
    CASE s = "ZSTD" -> "zstd"
      [] s = "Gzip" -> "gzip"
      [] OTHER -> s

\* the number of bytes of a content
RECURSIVE length(_)
length(bytes) ==
    IF bytes = <<>> THEN 0
    ELSE Head(bytes)[2] - Head(bytes)[1] + length(Tail(bytes))

\* line 352: io.BytesIO(), a buffer with its content and its position
BytesIO == [content |-> NoContent, pos |-> 0]

\* a buffer after `content` was written to it from its start
written(b1, content) == [content |-> content, pos |-> length(content.bytes)]

\* line 371: b1.seek(0)
seek(b1, pos) == [b1 EXCEPT !.pos = pos]

dob_idle ==
    [pc |-> "idle", file_obj |-> NoStream, compression |-> None,
     chunk_size |-> 0, b1 |-> BytesIO, err |-> NoError]

\* lines 335 and 352: argument binding, b1 = io.BytesIO()
decompress_stream_to_object_call ==
    /\ Idle
    /\ \E file_obj \in Streams, compression \in Compressions,
          chunk_size \in {1, 524288} :
        dob' = [dob_idle EXCEPT !.pc = "branch", !.file_obj = file_obj,
                                !.compression = compression,
                                !.chunk_size = chunk_size]
    /\ UNCHANGED <<dec, disk, putVars, copyVars, getVars, listVars, delVars,
                   mcVars, clientVars, versionVars, lockVars, list3Vars, zstdVars>>

\* lines 354-373: compression.lower() raises AttributeError on None (354);
\* open(b1, 'wb') raises TypeError, b1 being no path (365)
decompress_stream_to_object_run ==
    /\ dob.pc = "branch"
    /\ dob' =
         IF dob.compression = None
         THEN [dob EXCEPT !.pc = "raised", !.err = "AttributeError"]
         ELSE IF lower(dob.compression) \in {"zstd", "gzip"}
         THEN LET out == decode(lower(dob.compression), dob.file_obj)
              IN IF out.err = NoError
                 THEN [dob EXCEPT !.pc = "returned",
                                  !.b1 = seek(written(dob.b1, out.content), 0)]
                 ELSE [dob EXCEPT !.pc = "raised", !.err = out.err]
         ELSE [dob EXCEPT !.pc = "raised", !.err = "TypeError"]
    /\ UNCHANGED <<dec, disk, putVars, copyVars, getVars, listVars, delVars,
                   mcVars, clientVars, versionVars, lockVars, list3Vars, zstdVars>>

(***************************************************************************)
(* get_object_legal_hold_s3.  The bucket holds the objects 1..n, each with *)
(* a legal hold "ON" or "OFF" or none ("unset"); the backend answers       *)
(* get_object_legal_hold with the hold, or with a ClientError when the     *)
(* object or its hold does not exist; a request can also fail with an      *)
(* error that is no ClientError.                                           *)
(***************************************************************************)
ClientError == "ClientError"

s3_get_object_legal_hold(bucket, obj_key) ==
    IF obj_key \in DOMAIN bucket.holds /\ bucket.holds[obj_key] /= "unset"
    THEN [err |-> NoError, LegalHold |-> [Status |-> bucket.holds[obj_key]]]
    ELSE [err |-> ClientError, LegalHold |-> [Status |-> None]]

hold_is_set(status) == status \in {"ON", "OFF"}

\* line 909: status == 'ON'
hold_is_on(status) == status = "ON"

lh_idle == [pc |-> "idle", obj_key |-> 0, result |-> Absent, err |-> NoError]

bucket_lh_init == [holds |-> <<>>, requests |-> <<>>]

\* line 885: argument binding
get_object_legal_hold_s3_call ==
    /\ Idle
    /\ \E n \in 0..MaxObjects, obj_key \in 1..MaxObjects :
        \E holds \in [1..n -> {"ON", "OFF", "unset"}] :
            /\ lh' = [lh_idle EXCEPT !.pc = "get", !.obj_key = obj_key]
            /\ bucket_lh' = [bucket_lh_init EXCEPT !.holds = holds]
    /\ UNCHANGED <<putVars, copyVars, getVars, listVars, delVars, mcVars,
                   clientVars, versionVars, decodeVars, list3Vars, zstdVars>>

\* lines 902-912: the request, the except clause, the test of the status
get_object_legal_hold_s3_step ==
    /\ lh.pc = "get"
    /\ \E failure \in {NoError, OtherError} :
        LET resp == IF failure = NoError
                    THEN s3_get_object_legal_hold(bucket_lh, lh.obj_key)
                    ELSE [err |-> failure, LegalHold |-> [Status |-> None]]
        IN /\ bucket_lh' = [bucket_lh EXCEPT !.requests =
                              Append(@, [Key |-> lh.obj_key, err |-> resp.err])]
           /\ lh' = IF resp.err = ClientError
                    THEN [lh EXCEPT !.pc = "returned", !.result = Some(FALSE)]
                    ELSE IF resp.err /= NoError
                    THEN [lh EXCEPT !.pc = "raised", !.err = resp.err]
                    ELSE [lh EXCEPT !.pc = "returned",
                            !.result = Some(hold_is_on(resp.LegalHold.Status))]
    /\ UNCHANGED <<putVars, copyVars, getVars, listVars, delVars, mcVars,
                   clientVars, versionVars, decodeVars, list3Vars, zstdVars>>

(***************************************************************************)
(* list_objects_s3.  The empty string of a cursor argument is Absent.  The *)
(* backend's marker-style list_objects answers with the keys after Marker, *)
(* at most its page size of them; a truncated answer carries NextMarker    *)
(* when the request names a delimiter, and on some backends always.        *)
(***************************************************************************)
s3_list_objects(bucket, Marker, Delimiter) ==
    LET after == IF Marker /= Absent THEN Marker[1] ELSE 0
        last == Min(after + bucket.page_size, bucket.n)
    IN [Contents |-> IF last > after THEN Some(Keys(after + 1, last)) ELSE Absent,
        NextMarker |-> IF last < bucket.n /\ last > after
                          /\ (Delimiter /= "" \/ bucket.always_next_marker)
                       THEN Some(last) ELSE Absent]

legacy_host_never(host) == FALSE

\* line 719: s3._endpoint.host == 'https://vault.revera.co.nz'
legacy_host(host) == host = "https://vault.revera.co.nz"

\* line 748: pd.DataFrame(js)[[...]], one row per record, in order
DataFrame(js) == [i \in DOMAIN js |-> [Key |-> js[i]]]

ls3_idle ==
    [pc |-> "idle", host |-> None, start_after |-> Absent, delimiter |-> "",
     continuation_token |-> Absent, js |-> <<>>, f_df1 |-> <<>>]

bucket_ls3_init ==
    [n |-> 0, page_size |-> 1, always_next_marker |-> FALSE,
     requests |-> <<>>, responses |-> <<>>]

\* line 694: argument binding; lines 720 and 734: js = []
list_objects_s3_call ==
    /\ Idle
    /\ \E host \in {"https://vault.revera.co.nz", "https://s3.example.com"},
          n \in 0..MaxObjects, page_size \in 1..MaxObjects,
          start_after \in {Absent, Some(1)}, delimiter \in {"", "/"},
          continuation_token \in {Absent, Some(2)},
          always_next_marker \in BOOLEAN :
        /\ ls3' = [ls3_idle EXCEPT
                     !.pc = "loop", !.host = host, !.start_after = start_after,
                     !.delimiter = delimiter,
                     !.continuation_token = continuation_token]
        /\ bucket_ls3' = [bucket_ls3_init EXCEPT
                            !.n = n, !.page_size = page_size,
                            !.always_next_marker = always_next_marker]
    /\ UNCHANGED <<putVars, copyVars, getVars, listVars, delVars, mcVars,
                   clientVars, versionVars, decodeVars, lockVars, zstdVars>>

\* lines 721-731, resp. 735-745: one pass of the loop of the dialect the host
\* selects; leaving the loop, lines 747-759: the DataFrame is built and
\* returned
list_objects_s3_step ==
    /\ ls3.pc = "loop"
    /\ LET legacy == legacy_host(ls3.host)
           request ==
               IF legacy
               THEN [api |-> "list_objects", Marker |-> ls3.start_after,
                     StartAfter |-> Absent, ContinuationToken |-> Absent,
                     Delimiter |-> ls3.delimiter]
               ELSE [api |-> "list_objects_v2", Marker |-> Absent,
                     StartAfter |-> ls3.start_after,
                     ContinuationToken |-> ls3.continuation_token,
                     Delimiter |-> ls3.delimiter]
           js1 == IF legacy
                  THEN LET r == s3_list_objects(bucket_ls3, request.Marker,
                                                request.Delimiter)
                       IN [Contents |-> r.Contents, next |-> r.NextMarker]
                  ELSE LET r == s3_list_objects_v2(bucket_ls3,
                                   [no_params EXCEPT
                                      !.StartAfter = request.StartAfter,
                                      !.ContinuationToken =
                                          request.ContinuationToken])
                       IN [Contents |-> r.Contents,
                           next |-> r.NextContinuationToken]
           js == IF js1.Contents /= Absent THEN ls3.js \o js1.Contents[1]
                 ELSE ls3.js
       IN /\ bucket_ls3' = [bucket_ls3 EXCEPT
                              !.requests = Append(@, request),
                              !.responses = Append(@, js1)]
          /\ ls3' = IF js1.Contents /= Absent /\ js1.next /= Absent
                    THEN IF legacy
                         THEN [ls3 EXCEPT !.js = js, !.start_after = js1.next]
                         ELSE [ls3 EXCEPT !.js = js,
                                          !.continuation_token = js1.next]
                    ELSE [ls3 EXCEPT !.js = js, !.pc = "returned",
                                     !.f_df1 = DataFrame(js)]
    /\ UNCHANGED <<putVars, copyVars, getVars, listVars, delVars, mcVars,
                   clientVars, versionVars, decodeVars, lockVars, zstdVars>>

(***************************************************************************)
(* zstd_stream_reader and zstd_stream_writer.  A stream is a record of its *)
(* class, the read_size / write_size it was built with (0 for a stream     *)
(* that is no zstd wrapper), its _buffer_size attribute (Absent when the   *)
(* object has none) and the number of wrappers around the raw stream.      *)
(***************************************************************************)
BufferSizes == {1, 500000, 512000, 524288}

\* lines 242 and 255: the default of the buffer_size argument
default_buffer_size == 512000

NoWrapper == [cls |-> None, size |-> 0, attr_buffer_size |-> Absent, depth |-> 0]

\* the streams a caller passes: with and without a _buffer_size attribute
RawStreams ==
    {[cls |-> "raw", size |-> 0, attr_buffer_size |-> b, depth |-> 0] :
        b \in {Absent} \cup {Some(n) : n \in BufferSizes}}

\* lines 246 and 259: hasattr(stream, '_buffer_size')
hasattr_buffer_size(stream) == stream.attr_buffer_size /= Absent

\* lines 242, 255: the argument as bound by the call
bind_buffer_size(arg) == IF arg = Absent THEN default_buffer_size ELSE arg[1]

inherit_never(stream, buffer_size) == buffer_size

\* lines 246-247 and 259-260
inherit_buffer_size(stream, buffer_size) ==
    IF hasattr_buffer_size(stream) THEN stream.attr_buffer_size[1] ELSE buffer_size

\* lines 248-249: dctx.stream_reader(stream, read_size=buffer_size); line 250
\* is a comment, the reader gets no _buffer_size
stream_reader(stream, read_size) ==
    [cls |-> "ZstdDecompressionReader", size |-> read_size,
     attr_buffer_size |-> Absent, depth |-> stream.depth + 1]

\* lines 261-262: dctx.stream_writer(stream, write_size=buffer_size)
stream_writer(stream, write_size) ==
    [cls |-> "ZstdCompressionWriter", size |-> write_size,
     attr_buffer_size |-> Absent, depth |-> stream.depth + 1]

zr_idle ==
    [pc |-> "idle", stream |-> NoWrapper, arg |-> Absent, buffer_size |-> 0,
     reader |-> NoWrapper]

zw_idle ==
    [pc |-> "idle", stream |-> NoWrapper, arg |-> Absent, buffer_size |-> 0,
     writer |-> NoWrapper, err |-> NoError]

\* line 242
zstd_stream_reader_call ==
    /\ Idle
    /\ \E stream \in RawStreams, arg \in {Absent} \cup {Some(n) : n \in BufferSizes} :
        zr' = [zr_idle EXCEPT !.pc = "hasattr", !.stream = stream, !.arg = arg,
                              !.buffer_size = bind_buffer_size(arg)]
    /\ UNCHANGED <<putVars, copyVars, getVars, listVars, delVars, mcVars,
                 clientVars, versionVars, decodeVars, lockVars, list3Vars, zw>>

\* lines 246-247
zstd_stream_reader_hasattr ==
    /\ zr.pc = "hasattr"
    /\ zr' = [zr EXCEPT !.pc = "wrap",
                        !.buffer_size = inherit_buffer_size(zr.stream, zr.buffer_size)]
    /\ UNCHANGED <<putVars, copyVars, getVars, listVars, delVars, mcVars,
                 clientVars, versionVars, decodeVars, lockVars, list3Vars, zw>>

\* lines 248-252
zstd_stream_reader_wrap ==
    /\ zr.pc = "wrap"
    /\ zr' = [zr EXCEPT !.pc = "returned",
                        !.reader = stream_reader(zr.stream, zr.buffer_size)]
    /\ UNCHANGED <<putVars, copyVars, getVars, listVars, delVars, mcVars,
                 clientVars, versionVars, decodeVars, lockVars, list3Vars, zw>>

\* line 255, called with a stream of the caller
zstd_stream_writer_call ==
    /\ Idle
    /\ \E stream \in RawStreams, arg \in {Absent} \cup {Some(n) : n \in BufferSizes} :
        zw' = [zw_idle EXCEPT !.pc = "hasattr", !.stream = stream, !.arg = arg,
                              !.buffer_size = bind_buffer_size(arg)]
    /\ UNCHANGED <<putVars, copyVars, getVars, listVars, delVars, mcVars,
                 clientVars, versionVars, decodeVars, lockVars, list3Vars, zr>>

\* line 255, called with the writer a call before it returned
zstd_stream_writer_nest ==
    /\ zw.pc = "returned"
    /\ zw.writer.depth < MaxNest
    /\ \E arg \in {Absent} \cup {Some(n) : n \in BufferSizes} :
        zw' = [zw_idle EXCEPT !.pc = "hasattr", !.stream = zw.writer, !.arg = arg,
                              !.buffer_size = bind_buffer_size(arg)]
    /\ UNCHANGED <<putVars, copyVars, getVars, listVars, delVars, mcVars,
                 clientVars, versionVars, decodeVars, lockVars, list3Vars, zr>>

\* lines 259-260
zstd_stream_writer_hasattr ==
    /\ zw.pc = "hasattr"
    /\ zw' = [zw EXCEPT !.pc = "wrap",
                        !.buffer_size = inherit_buffer_size(zw.stream, zw.buffer_size)]
    /\ UNCHANGED <<putVars, copyVars, getVars, listVars, delVars, mcVars,
                 clientVars, versionVars, decodeVars, lockVars, list3Vars, zr>>

\* lines 261-262
zstd_stream_writer_wrap ==
    /\ zw.pc = "wrap"
    /\ zw' = [zw EXCEPT !.pc = "setattr",
                        !.writer = stream_writer(zw.stream, zw.buffer_size)]
    /\ UNCHANGED <<putVars, copyVars, getVars, listVars, delVars, mcVars,
                 clientVars, versionVars, decodeVars, lockVars, list3Vars, zr>>

\* lines 263-265: writer._buffer_size = buffer_size.  The writer class is the
\* zstandard backend's: a class that takes new attributes stores it, one
\* that does not raises AttributeError
zstd_stream_writer_setattr ==
    /\ zw.pc = "setattr"
    /\ \/ zw' = [zw EXCEPT !.pc = "returned",
                           !.writer.attr_buffer_size = Some(zw.buffer_size)]
       \/ zw' = [zw EXCEPT !.pc = "raised", !.err = "AttributeError"]
    /\ UNCHANGED <<putVars, copyVars, getVars, listVars, delVars, mcVars,
                 clientVars, versionVars, decodeVars, lockVars, list3Vars, zr>>

(***************************************************************************)
(* The specification.                                                      *)
(***************************************************************************)
Init ==
    /\ put = put_idle
    /\ bucket_put = bucket_put_init
    /\ cp = copy_idle
    /\ bucket_cp = 0
    /\ get = get_idle
    /\ url = url_idle
    /\ net = net_init
    /\ ls = list_idle
    /\ bucket_ls = bucket_ls_init
    /\ del = del_idle
    /\ bucket_del = bucket_del_init
    /\ mc = mc_idle
    /\ bucket_mc = <<>>
    /\ s3c = s3c_idle
    /\ boto = boto_init
    /\ lv = lv_idle
    /\ bucket_lv = bucket_lv_init
    /\ dec = dec_idle
    /\ disk = disk_init
    /\ dob = dob_idle
    /\ lh = lh_idle
    /\ bucket_lh = bucket_lh_init
    /\ ls3 = ls3_idle
    /\ bucket_ls3 = bucket_ls3_init
    /\ zr = zr_idle
    /\ zw = zw_idle

NextTransfer ==
    \/ put_object_s3_call
    \/ put_open
    \/ put_read
    \/ put_write
    \/ put_close
    \/ copy_object_s3_call
    \/ copy_object_s3_step

NextGet ==
    \/ get_object_s3_call
    \/ get_open
    \/ url_to_stream_call
    \/ url_to_stream_step

NextList ==
    \/ list_objects_call
    \/ list_objects_step

NextDelete ==
    \/ delete_objects_s3_call
    \/ delete_objects_s3_step

NextMultiCopy ==
    \/ multi_copy_object_s3_call
    \/ mc_submit
    \/ mc_worker_start
    \/ mc_worker_step
    \/ mc_join

NextClient ==
    \/ s3_client_call
    \/ s3_client_validate
    \/ s3_client_build

NextVersions ==
    \/ list_object_versions_call
    \/ list_object_versions_step

NextDecode ==
    \/ decompress_stream_to_file_call
    \/ decompress_stream_to_file_write
    \/ decompress_stream_to_object_call
    \/ decompress_stream_to_object_run

NextLock ==
    \/ get_object_legal_hold_s3_call
    \/ get_object_legal_hold_s3_step

NextList3 ==
    \/ list_objects_s3_call
    \/ list_objects_s3_step

NextZstd ==
    \/ zstd_stream_reader_call
    \/ zstd_stream_reader_hasattr
    \/ zstd_stream_reader_wrap
    \/ zstd_stream_writer_call
    \/ zstd_stream_writer_nest
    \/ zstd_stream_writer_hasattr
    \/ zstd_stream_writer_wrap
    \/ zstd_stream_writer_setattr

Next ==
    \/ NextTransfer \/ NextGet \/ NextList \/ NextDelete \/ NextMultiCopy
    \/ NextClient \/ NextVersions \/ NextDecode \/ NextLock \/ NextList3
    \/ NextZstd

\* any call of the library
Spec == Init /\ [][Next]_vars

\* a call of put_object_s3 or copy_object_s3
SpecTransfer == Init /\ [][NextTransfer]_vars

\* the same, the interpreter running every call until it returns or raises
SpecTransferFair == SpecTransfer /\ WF_vars(NextTransfer)

\* a call of get_object_s3 or url_to_stream
SpecGet == Init /\ [][NextGet]_vars

\* a call of list_objects
SpecList == Init /\ [][NextList]_vars

\* a call of delete_objects_s3
SpecDelete == Init /\ [][NextDelete]_vars

\* a call of multi_copy_object_s3
SpecMultiCopy == Init /\ [][NextMultiCopy]_vars

\* a call of s3_client
SpecClient == Init /\ [][NextClient]_vars

\* a call of list_object_versions
SpecVersions == Init /\ [][NextVersions]_vars

\* a call of decompress_stream_to_file or decompress_stream_to_object
SpecDecode == Init /\ [][NextDecode]_vars

\* a call of get_object_legal_hold_s3
SpecLock == Init /\ [][NextLock]_vars

\* a call of list_objects_s3
SpecList3 == Init /\ [][NextList3]_vars

\* a call of zstd_stream_reader or zstd_stream_writer
SpecZstd == Init /\ [][NextZstd]_vars


(***************************************************************************)
(* Claims.                                                                 *)
(***************************************************************************)
Last(s) == s[Len(s)]

\* C1: whenever put_object_s3 returns normally for a source stream that was
\* positioned at byte 0 - on the first attempt or after retried
\* ConnectionClosedError attempts (retries >= 1) - the object stored under
\* (bucket, obj_key) is byte for byte the whole source stream.
C1_RoundTrip ==
    (put.pc = "returned" /\ put.source_pos = 0 /\ put.retries >= 1)
        => bucket_put.object = Whole(put.file_obj.size)

\* the trace of a retry loop alternates attempts and sleeps of 3 units
Alternates(trace) ==
    \A i \in DOMAIN trace : trace[i] = IF i % 2 = 1 THEN Attempt ELSE Slept(3)

\* the retry budget of one frame; tryPc is the pc at which an attempt starts
RetryBudget(fr, tryPc) ==
    fr.retries >= 1 =>
        /\ Alternates(fr.trace)
        /\ NAttempts(fr.trace) <= fr.retries
        /\ fr.pc = tryPc => NAttempts(fr.trace) < fr.retries
        /\ (fr.pc = "raised" /\ fr.err = ConnectionClosedError) =>
              /\ NAttempts(fr.trace) = fr.retries
              /\ NSleeps(fr.trace) = fr.retries - 1
              /\ Last(fr.trace) = Attempt
        /\ fr.pc = "returned" =>
              /\ Last(fr.trace) = Attempt
              /\ NSleeps(fr.trace) = NAttempts(fr.trace) - 1

\* C3: with retries = n >= 1, put_object_s3 and copy_object_s3 make at most n
\* attempts; when every attempt raises ConnectionClosedError they make exactly
\* n attempts with a sleep of 3 units between consecutive attempts (n-1
\* sleeps, none after the last failure) and raise the error; once an attempt
\* has succeeded the call has returned and nothing more is attempted.
C3_RetryBudget ==
    /\ [](RetryBudget(put, "open") /\ RetryBudget(cp, "copy"))
    /\ [][(put.pc = "returned" => put' = put) /\ (cp.pc = "returned" => cp' = cp)]_vars

C3_Witness ==
    /\ put.pc = "raised" /\ put.err = ConnectionClosedError
    /\ put.retries = 3 /\ NAttempts(put.trace) = 3 /\ NSleeps(put.trace) = 2

\* the optional attributes the caller asked for
C7_Attributes ==
    {<<"Metadata", put.metadata>> : x \in IF put.metadata = None THEN {} ELSE {1}}
    \cup {<<"ContentType", put.content_type>> :
            x \in IF put.content_type = None THEN {} ELSE {1}}
    \cup {<<"ObjectLockLegalHoldStatus", "ON">> :
            x \in IF put.object_legal_hold THEN {1} ELSE {}}

\* C7: put_object_s3 issues a multipart upload if and only if the source
\* stream is larger than 2^28 = 268435456 bytes, a single-part put otherwise,
\* and the optional attributes go to the call of the branch taken
\* (create_multipart_upload, resp. put_object) and to no other call.
C7_MultipartThreshold ==
    put.pc /= "idle" =>
        LET big == put.file_obj.size > 268435456
        IN /\ put.transport_params.multipart_upload = big
           /\ put.transport_params.client_kwargs =
                {<<IF big THEN "S3.Client.create_multipart_upload"
                          ELSE "S3.Client.put_object", C7_Attributes>>}
           /\ \A i \in DOMAIN bucket_put.api :
                LET c == bucket_put.api[i]
                IN /\ c.call \in (IF big THEN {"create_multipart_upload",
                                                "complete_multipart_upload"}
                                         ELSE {"put_object"})
                   /\ c.kwargs = IF c.call = "complete_multipart_upload"
                                 THEN {} ELSE C7_Attributes

C7_Witness ==
    /\ put.pc = "returned" /\ put.file_obj.size = 268435456
    /\ ~put.transport_params.multipart_upload
    /\ Cardinality(C7_Attributes) = 3
    /\ Len(bucket_put.api) = 1

\* the attempts of url_to_stream as the network saw them
UrlOpens == Len(net.opens)

\* C4: with retries = n >= 1, url_to_stream - called directly or by
\* get_object_s3 with a public_url and no version_id - never raises; when
\* every open raises (any exception) it makes exactly n opens with a sleep of
\* 3 units between consecutive opens and returns None; when open k <= n
\* succeeds the stream is returned after exactly k opens.
C4_PublicUrlDegrades ==
    /\ url.pc \in {"idle", "open", "returned"}
    /\ (url.pc /= "idle" /\ url.retries >= 1) =>
        /\ Alternates(url.trace)
        /\ NAttempts(url.trace) = UrlOpens
        /\ UrlOpens <= url.retries
        /\ \A i \in DOMAIN net.opens : net.opens[i].how = "http"
        /\ \A i \in 1..(UrlOpens - 1) : net.opens[i].out /= NoError
        /\ url.pc = "open" =>
              /\ UrlOpens < url.retries
              /\ \A i \in DOMAIN net.opens : net.opens[i].out /= NoError
        /\ url.pc = "returned" =>
              /\ Last(url.trace) = Attempt
              /\ NSleeps(url.trace) = UrlOpens - 1
              /\ IF Last(net.opens).out = NoError
                 THEN url.file_obj = "stream"
                 ELSE url.file_obj = None /\ UrlOpens = url.retries
    /\ (get.pc /= "idle" /\ get.public_url /= None /\ get.version_id = None) =>
        /\ url.pc /= "idle" /\ url.retries = get.retries
        /\ get.pc = IF url.pc = "returned" THEN "returned" ELSE "url_to_stream"
        /\ get.pc = "returned" => get.file_obj = url.file_obj

C4_Witness ==
    /\ get.pc = "returned" /\ get.file_obj = None /\ get.public_url /= None
    /\ get.retries = 3 /\ UrlOpens = 3 /\ NSleeps(url.trace) = 2

\* the call of get_object_s3 goes through the client path
C5_ClientPath ==
    /\ get.pc /= "idle"
    /\ ~(get.public_url /= None /\ get.version_id = None)
    /\ (get.s3 /= None \/ get.connection_config.is_dict)

\* C5: on the client path (an s3 handle or connection parameters, the
\* public-URL path not taken) get_object_s3 opens the stream once; whatever
\* exception the open raises, the call returns None instead of raising, and
\* it returns the stream when the open succeeds.
C5_ClientOpenNeverThrows ==
    C5_ClientPath =>
        /\ Len(net.opens) <= 1
        /\ get.pc = "returned" <=> net.opens /= <<>>
        /\ get.pc = "raised" => get.err = "ValidationError"
        /\ net.opens /= <<>> =>
              /\ net.opens[1].how = "s3"
              /\ get.err = NoError
              /\ get.file_obj = IF net.opens[1].out = NoError THEN "stream" ELSE None

C5_Witness ==
    /\ C5_ClientPath /\ get.pc = "returned" /\ get.file_obj = None
    /\ net.opens[1].out = OtherError /\ get.s3 = None

\* C6: get_object_s3 called with no s3 handle, no connection_config and no
\* public_url raises (TypeError) at once: no client is built, no
\* configuration is validated, no stream is opened, and there is no result.
C6_NoTransportRaises ==
    (get.pc /= "idle" /\ get.s3 = None /\ ~get.connection_config.is_dict
        /\ get.public_url = None) =>
        /\ get.pc = "raised" /\ get.err = "TypeError"
        /\ get.file_obj = None
        /\ net = [clients |-> 0, validations |-> 0, opens |-> <<>>]
        /\ url.pc = "idle"

C6_Witness ==
    /\ get.pc = "raised" /\ get.err = "TypeError"
    /\ get.s3 = None /\ ~get.connection_config.is_dict /\ get.public_url = None

NoDuplicates(seq) == \A i, j \in DOMAIN seq : seq[i] = seq[j] => i = j

\* C2: list_objects on a bucket of n objects, called with a max_keys >= 1
\* (no start_after, no continuation_token), never accumulates an object
\* twice and returns exactly the n objects, each once, whatever max_keys.
C2_ListsEachObjectOnce ==
    (ls.pc /= "idle" /\ ls.start_after = Absent /\ ls.token_arg = Absent
        /\ ls.max_keys /= Absent /\ ls.max_keys /= Some(0)) =>
        /\ NoDuplicates(ls.js)
        /\ ls.pc = "returned" => ls.js = Keys(1, bucket_ls.n)

RECURSIVE Concat(_)
Concat(calls) ==
    IF calls = <<>> THEN <<>> ELSE Head(calls).Objects \o Concat(Tail(calls))

IsPrefix(a, b) == Len(a) <= Len(b) /\ a = SubSeq(b, 1, Len(a))

\* C8: for n keys delete_objects_s3 issues ceil(n/1000) delete_objects calls
\* (1000, 1000 and 500 keys for n = 2500, none for n = 0), each of 1 to 1000
\* keys in quiet mode, and the key lists of the calls, concatenated in call
\* order, are the input list.
C8_DeleteBatching ==
    del.pc /= "idle" =>
        /\ \A i \in DOMAIN bucket_del.calls :
              /\ Len(bucket_del.calls[i].Objects) \in 1..1000
              /\ bucket_del.calls[i].Quiet
        /\ IsPrefix(Concat(bucket_del.calls), del.obj_keys)
        /\ Len(bucket_del.calls) <= (Len(del.obj_keys) + 999) \div 1000
        /\ del.pc = "returned" =>
              /\ Len(bucket_del.calls) = (Len(del.obj_keys) + 999) \div 1000
              /\ Concat(bucket_del.calls) = del.obj_keys
              /\ bucket_del.objects = {}

C8_Witness ==
    /\ del.pc = "returned" /\ Len(del.obj_keys) = 2500
    /\ Len(bucket_del.calls) = 3
    /\ Len(bucket_del.calls[1].Objects) = 1000
    /\ Len(bucket_del.calls[2].Objects) = 1000
    /\ Len(bucket_del.calls[3].Objects) = 500

\* the delete_objects calls that answered
C9_Answered == SubSeq(bucket_del.calls, 1, Len(bucket_del.calls) - 1)

\* C9: when the delete_objects call of a chunk raises, delete_objects_s3
\* raises that error at once: the failed call is the last call ever made,
\* every call before it answered and its keys stay deleted, the keys of the
\* later chunks are still in the bucket.
C9_DeleteFailure ==
    /\ [](\A i \in DOMAIN bucket_del.calls :
            bucket_del.calls[i].out /= NoError =>
                del.pc = "raised" /\ i = Len(bucket_del.calls))
    /\ [](del.pc = "raised" =>
            /\ del.err /= NoError
            /\ bucket_del.calls /= <<>>
            /\ Last(bucket_del.calls).out = del.err
            /\ \A i \in DOMAIN C9_Answered : C9_Answered[i].out = NoError
            /\ IsPrefix(Concat(bucket_del.calls), del.obj_keys)
            /\ bucket_del.objects = Range(del.obj_keys) \ Range(Concat(C9_Answered)))
    /\ [][del.pc = "raised" => (del' = del /\ bucket_del' = bucket_del)]_vars

C9_Witness ==
    /\ del.pc = "raised" /\ Len(bucket_del.calls) = 2
    /\ Len(del.obj_keys) = 2500
    /\ Cardinality(bucket_del.objects) = 1500

\* the number of tasks given to multi_copy_object_s3
C10_K == Len(mc.source_dest_keys)

\* C10: multi_copy_object_s3 with K tasks and a pool of `threads` >= 1
\* workers: when it returns, every task's copy has been made exactly once and
\* the result list holds the K responses, one per task, in some order; it
\* raises, with no result list, exactly when a task ended with an error.
C10_MultiCopyAllOrNothing ==
    /\ mc.pc = "returned" =>
          /\ \A i \in 1..C10_K : bucket_mc[i] = 1
          /\ Len(mc.resp_list) = C10_K
          /\ Range(mc.resp_list) = 1..C10_K
    /\ mc.pc = "raised" =>
          /\ mc.resp_list = <<>>
          /\ \E i \in 1..C10_K :
                mc.futures[i].fr.pc = "raised" /\ mc.futures[i].fr.err = mc.err
    /\ mc.pc \in {"returned", "raised"} =>
          /\ Len(mc.futures) = C10_K
          /\ mc.pc = "raised" <=> \E i \in 1..C10_K : mc.futures[i].fr.pc = "raised"

C10_Witness ==
    /\ mc.pc = "returned" /\ C10_K = 3 /\ mc.threads = 2
    /\ Len(mc.resp_list) = 3
    /\ \E i \in 1..3 : NAttempts(mc.futures[i].fr.trace) = 3

\* a connection_config that lacks a required field or whose endpoint URL is
\* malformed
C11_Invalid ==
    \/ \E f \in {"service_name", "endpoint_url", "aws_access_key_id",
                 "aws_secret_access_key"} : f \notin s3c.connection_config.fields
    \/ s3c.connection_config.endpoint_url /= "https://s3.example.com"

\* C11: s3_client validates its connection parameters first: for every
\* connection_config lacking a required field or holding a malformed endpoint
\* URL, the call ends with a validation error, and no Config object and no
\* client is ever constructed for it; a client is only ever constructed
\* after a validation.
C11_ValidatesFirst ==
    /\ (s3c.pc /= "idle" /\ C11_Invalid) =>
          /\ s3c.pc \in {"validate", "raised"}
          /\ s3c.pc = "raised" => s3c.err = "ValidationError"
          /\ boto.Config = <<>> /\ boto.client = <<>>
          /\ s3c.s3 = None
    /\ s3c.pc = "validate" => boto = boto_init
    /\ boto.client /= <<>> => boto.validations = 1

C11_Witness ==
    /\ s3c.pc = "raised" /\ s3c.err = "ValidationError"
    /\ s3c.connection_config.endpoint_url = "not a url"
    /\ s3c.connection_config.fields = RequiredFields
    /\ boto.validations = 1 /\ boto.client = <<>>

\* C12: list_object_versions of a bucket without delete markers, listed from
\* its start, returns the versions of every page in backend order, each
\* version of each key exactly once - also when the versions of one key lie
\* on both sides of a page boundary.
C12_AllVersionsOnce ==
    (lv.pc = "returned" /\ lv.start_after = Absent /\ bucket_lv.deleted = {}) =>
        lv.js = VersionEntries(bucket_lv.counts, {}, 1)

\* the file name ends with a non-empty stem followed by "." and ext
C13_HasSuffix(ext) ==
    LET name == dec.file_path1.name
    IN /\ Len(name) >= 3
       /\ name[Len(name) - 1] = "." /\ name[Len(name)] = ext

\* the destination path without the last two tokens of its name
C13_Stripped ==
    LET name == dec.file_path1.name
    IN [dec.file_path1 EXCEPT !.name = SubSeq(name, 1, Len(name) - 2)]

\* the stream's content with its outermost layer, the given codec, removed
C13_Decoded(codec) ==
    IF dec.file_obj.size = 0 THEN [layers |-> <<>>, bytes |-> <<>>]
    ELSE [layers |-> Tail(dec.file_obj.layers),
          bytes |-> <<(<<0, dec.file_obj.size>>)>>]

\* C13: decompress_stream_to_file chooses the decoder and the output path
\* from the final suffix of the destination path: for a suffix .zst it
\* writes the zstd-decoded content to the path with exactly that suffix
\* removed, for .gz the same with gzip, and for any other path it writes the
\* input bytes unchanged to the path itself; it returns the path written.
\* It raises only when the stream is not in the format the suffix names.
C13_SuffixChoosesDecoder ==
    /\ dec.pc = "returned" =>
          /\ dec.result = join(dec.file_path2.parent) \o dec.file_path2.name
          /\ disk.path = dec.file_path2
          /\ IF C13_HasSuffix("zst")
             THEN /\ dec.file_path2 = C13_Stripped
                  /\ dec.file_obj.size > 0 => Head(dec.file_obj.layers) = "zstd"
                  /\ disk.content = C13_Decoded("zstd")
             ELSE IF C13_HasSuffix("gz")
             THEN /\ dec.file_path2 = C13_Stripped
                  /\ dec.file_obj.size > 0 => Head(dec.file_obj.layers) = "gzip"
                  /\ disk.content = C13_Decoded("gzip")
             ELSE /\ dec.file_path2 = dec.file_path1
                  /\ disk.content.layers = dec.file_obj.layers
                  /\ disk.content.bytes =
                        IF dec.file_obj.size = 0 THEN <<>>
                        ELSE <<(<<0, dec.file_obj.size>>)>>
    /\ dec.pc = "raised" =>
          /\ C13_HasSuffix("zst") \/ C13_HasSuffix("gz")
          /\ \/ dec.file_obj.layers = <<>>
             \/ Head(dec.file_obj.layers) /=
                  (IF C13_HasSuffix("zst") THEN "zstd" ELSE "gzip")

C13_Witness ==
    /\ dec.pc = "returned"
    /\ dec.file_path1 = [parent |-> <<"dir">>, name |-> <<"a", ".", "gz", ".", "zst">>]
    /\ dec.file_obj.layers = <<"zstd", "gzip">> /\ dec.file_obj.size = 524289
    /\ dec.result = <<"dir", "/", "a", ".", "gz">>
    /\ disk.content = [layers |-> <<"gzip">>, bytes |-> <<(<<0, 524289>>)>>]

\* C14: decompress_stream_to_object accepts compression "zstd", "gzip" or
\* None; called with None it copies the stream raw and returns, without
\* raising, a buffer whose content equals the input; and every buffer it
\* returns is positioned at byte 0.
C14_RawCopyOnNone ==
    /\ (dob.pc \in {"returned", "raised"} /\ dob.compression = None) =>
          /\ dob.pc = "returned"
          /\ dob.b1.content.layers = dob.file_obj.layers
          /\ dob.b1.content.bytes = Whole(dob.file_obj.size)
    /\ dob.pc = "returned" => dob.b1.pos = 0

\* C15: get_object_legal_hold_s3 makes exactly one backend request, for the
\* object asked about; it returns True exactly when the backend reports the
\* status ON for it, and when the backend answers with a ClientError it
\* returns False and does not raise.
C15_LegalHold ==
    /\ lh.pc = "get" => bucket_lh.requests = <<>>
    /\ lh.pc \in {"returned", "raised"} =>
          /\ Len(bucket_lh.requests) = 1
          /\ bucket_lh.requests[1].Key = lh.obj_key
          /\ bucket_lh.requests[1].err = "ClientError" =>
                (lh.pc = "returned" /\ lh.result = <<FALSE>>)
          /\ bucket_lh.requests[1].err = "NoError" =>
                /\ lh.pc = "returned"
                /\ lh.result = <<bucket_lh.holds[lh.obj_key] = "ON">>
          /\ lh.pc = "raised" =>
                bucket_lh.requests[1].err \notin {"NoError", "ClientError"}

C15_Witness ==
    /\ lh.pc = "returned" /\ lh.result = <<FALSE>>
    /\ bucket_lh.requests = <<[Key |-> 2, err |-> "ClientError"]>>
    /\ Len(bucket_lh.holds) = 2 /\ bucket_lh.holds[1] = "ON"
    /\ bucket_lh.holds[2] = "unset"

\* an error that is no ConnectionClosedError ended the call of frame fr
\* (retries >= 1) in the pass it occurred in: that pass is the last entry of
\* the trace, every earlier pass was followed by its sleep, and the counter
\* holds what the earlier passes left of the budget
NotRetried(fr) ==
    (fr.pc = "raised" /\ fr.err /= "ConnectionClosedError" /\ fr.retries >= 1) =>
        /\ fr.trace /= <<>> /\ fr.trace[Len(fr.trace)].e = "attempt"
        /\ NSleeps(fr.trace) = NAttempts(fr.trace) - 1
        /\ fr.counter = fr.retries - NSleeps(fr.trace)
        /\ fr.counter >= 1

\* C16: in put_object_s3 and copy_object_s3 an error other than
\* ConnectionClosedError is not retried: it propagates from the attempt it
\* occurred in, whatever budget is left, with no sleep and no further attempt
\* after it.
C16_OtherErrorsNotRetried ==
    /\ [](NotRetried(put) /\ NotRetried(cp))
    /\ [][/\ (put.pc = "raised" => put' = put)
          /\ (cp.pc = "raised" => cp' = cp)
          /\ (put.pc /= "idle" /\ put'.err = "OtherError") =>
                (put'.pc = "raised" /\ put'.counter = put.counter
                 /\ NSleeps(put'.trace) = NSleeps(put.trace))
          /\ (cp.pc /= "idle" /\ cp'.err = "OtherError") =>
                (cp'.pc = "raised" /\ cp'.counter = cp.counter
                 /\ NSleeps(cp'.trace) = NSleeps(cp.trace))]_vars

C16_Witness ==
    /\ put.pc = "raised" /\ put.err = "OtherError"
    /\ put.retries = 3 /\ put.counter = 2
    /\ NAttempts(put.trace) = 2 /\ NSleeps(put.trace) = 1

\* the nested 'config' block of the dict s3_client was called with, as a
\* dict over the keys a block can hold (no block: no key)
C17_Nested ==
    IF s3c.connection_config.config = <<>>
    THEN [k \in DOMAIN boto.client[1].config |-> <<>>]
    ELSE s3c.connection_config.config[1]

\* C17: when s3_client returns, the client was built with
\* max_pool_connections, retries (mode and max_attempts) and read_timeout
\* equal to the call-time arguments - also where a nested 'config' block of
\* connection_config sets them - with every other key of the nested block
\* as the block has it, and with the other entries of connection_config.
C17_TuningPrecedence ==
    s3c.pc = "returned" =>
        /\ Len(boto.client) = 1
        /\ LET built == boto.client[1]
           IN /\ built.config["max_pool_connections"] = <<s3c.max_pool_connections>>
              /\ built.config["retries"] =
                    <<[mode |-> s3c.retry_mode, max_attempts |-> s3c.max_attempts]>>
              /\ built.config["read_timeout"] = <<s3c.read_timeout>>
              /\ \A k \in {"signature_version", "connect_timeout"} :
                    built.config[k] = C17_Nested[k]
              /\ built.fields = s3c.connection_config.fields
              /\ built.endpoint_url = s3c.connection_config.endpoint_url

C17_Witness ==
    /\ s3c.pc = "returned"
    /\ s3c.max_pool_connections = 30 /\ s3c.read_timeout = 120
    /\ s3c.max_attempts = 3 /\ s3c.retry_mode = "adaptive"
    /\ s3c.connection_config.config /= <<>>
    /\ s3c.connection_config.config[1]["max_pool_connections"] = <<10>>
    /\ s3c.connection_config.config[1]["retries"] /= <<>>
    /\ s3c.connection_config.config[1]["read_timeout"] = <<60>>
    /\ s3c.connection_config.config[1]["signature_version"] = <<"s3">>
    /\ boto.client[1].config["max_pool_connections"] = <<30>>
    /\ boto.client[1].config["signature_version"] = <<"s3">>

\* the number of pages in which the backend serves the whole bucket
C18_Pages ==
    IF bucket_ls.n = 0 THEN 1
    ELSE (bucket_ls.n + bucket_ls.page_size - 1) \div bucket_ls.page_size

\* C18: list_objects of a bucket that the backend serves in P pages (listed
\* from its start, max_keys not given) makes at most P list_objects_v2
\* requests.
C18_AtMostOneRequestPerPage ==
    (ls.pc /= "idle" /\ ls.start_after = <<>> /\ ls.token_arg = <<>>
        /\ ls.max_keys = <<>>)
        => Len(bucket_ls.requests) <= C18_Pages

\* C19: the retry loops of put_object_s3 and copy_object_s3 terminate for
\* every integer value of retries, 0 and negative values included: a call
\* that was made eventually returns or raises, also when every attempt
\* raises ConnectionClosedError.
C19_RetryLoopsTerminate ==
    /\ (put.pc /= "idle") ~> (put.pc \in {"returned", "raised"})
    /\ (cp.pc /= "idle") ~> (cp.pc \in {"returned", "raised"})

\* the cursor a request of list_objects_s3 carries
C20_Cursor(request) ==
    IF request.api = "list_objects" THEN request.Marker
    ELSE request.ContinuationToken

\* C20: in one call of list_objects_s3 every request is a list_objects
\* request when the client's host is the legacy host and a list_objects_v2
\* request otherwise; the first request carries the caller's cursor and
\* request k+1 carries exactly the next-cursor of response k; the loop ends
\* at the first response without next-cursor or without Contents; and the
\* records returned are the Contents of all responses, in call order.
C20_CursorProtocol ==
    LET requests == bucket_ls3.requests
        responses == bucket_ls3.responses
        last(k) == responses[k].next = <<>> \/ responses[k].Contents = <<>>
    IN /\ Len(requests) = Len(responses)
       /\ \A k \in DOMAIN requests :
             requests[k].api =
                IF ls3.host = "https://vault.revera.co.nz"
                THEN "list_objects" ELSE "list_objects_v2"
       /\ \A k \in DOMAIN requests :
             /\ k > 1 => C20_Cursor(requests[k]) = responses[k - 1].next
             /\ k < Len(requests) => ~last(k)
       /\ ls3.pc = "loop" => \A k \in DOMAIN responses : ~last(k)
       /\ ls3.pc = "returned" =>
             /\ requests /= <<>> /\ last(Len(responses))
             /\ Len(ls3.f_df1) = Len(ls3.js)
             /\ [i \in DOMAIN ls3.f_df1 |-> ls3.f_df1[i].Key] =
                   Concat([k \in DOMAIN responses |->
                             [Objects |-> IF responses[k].Contents = <<>> THEN <<>>
                                          ELSE responses[k].Contents[1]]])

C20_Witness ==
    /\ ls3.pc = "returned" /\ ls3.host = "https://vault.revera.co.nz"
    /\ Len(bucket_ls3.requests) = 3
    /\ bucket_ls3.requests[2].Marker = <<2>>
    /\ bucket_ls3.requests[3].Marker = <<3>>
    /\ Len(ls3.f_df1) = 3

\* C21: list_object_versions called with delete_markers (from the start of
\* the bucket; here every key has a single entry, so no key lies across a
\* page boundary) returns as its delete-marker list every delete marker of
\* every page, in backend order, also for a page that holds delete markers
\* and no version, and the listing goes on past such a page.
C21_AllDeleteMarkers ==
    (lv.pc = "returned" /\ lv.delete_markers /\ lv.start_after = <<>>
        /\ \A k \in DOMAIN bucket_lv.counts : bucket_lv.counts[k] = 1) =>
        /\ lv.dm = SelectSeq(VersionEntries(bucket_lv.counts, bucket_lv.deleted, 1),
                             IsMarker)
        /\ lv.js = SelectSeq(VersionEntries(bucket_lv.counts, bucket_lv.deleted, 1),
                             IsVersion)

\* the tasks whose copy_object_s3 call is in flight
C22_InFlight == {i \in DOMAIN mc.futures : mc.futures[i].fr.pc = "copy"}

\* C22: at every moment of a call of multi_copy_object_s3 at most `threads`
\* copy_object_s3 calls are in flight, whatever the number K of tasks, K
\* larger than threads included.
C22_BoundedParallelism ==
    mc.pc /= "idle" => Cardinality(C22_InFlight) <= mc.threads

C22_Witness ==
    /\ Len(mc.source_dest_keys) = 3 /\ mc.threads = 2
    /\ Cardinality(C22_InFlight) = 2
    /\ \E i \in DOMAIN mc.futures : mc.futures[i].state = "pending"

\* C23: multi_copy_object_s3 returns or raises only after every one of its
\* K tasks was submitted and has finished, returned or raised; a failed task
\* does not keep the others from running, so also when the call raises the
\* copy of every task that returned has been made on the backend, once; and
\* no task runs after the call has ended.
C23_JoinBarrier ==
    /\ [](mc.pc \in {"returned", "raised"} =>
            /\ Len(mc.futures) = Len(mc.source_dest_keys)
            /\ \A i \in DOMAIN mc.futures :
                  /\ mc.futures[i].fr.pc \in {"returned", "raised"}
                  /\ mc.futures[i].fr.pc = "returned" <=> bucket_mc[i] = 1
                  /\ mc.futures[i].fr.pc = "raised" => bucket_mc[i] = 0)
    /\ [][mc.pc \in {"returned", "raised"} =>
            (mc' = mc /\ bucket_mc' = bucket_mc)]_vars

C23_Witness ==
    /\ mc.pc = "raised" /\ Len(mc.source_dest_keys) = 3 /\ mc.threads = 1
    /\ mc.futures[1].fr.pc = "raised"
    /\ mc.futures[2].fr.pc = "returned" /\ mc.futures[3].fr.pc = "returned"
    /\ bucket_mc = <<0, 1, 1>>

\* C24: the retries argument n >= 1 of multi_copy_object_s3 is the retry
\* budget of each of its tasks: no task makes more than n attempts.
C24_RetriesPerTask ==
    (mc.pc /= "idle" /\ mc.retries >= 1) =>
        \A i \in DOMAIN mc.futures : NAttempts(mc.futures[i].fr.trace) <= mc.retries

\* C25: a call of get_object_s3 with a version_id never builds or opens a
\* public URL; with an s3 handle or a connection_config dict it goes through
\* the client path (a connection_config that does not validate raises
\* there), and the one open it makes carries that version_id; with neither,
\* a public_url or not, it raises TypeError without opening anything.
C25_VersionedReadUsesClient ==
    (get.pc /= "idle" /\ get.version_id /= "None") =>
        /\ url.pc = "idle" /\ url.url.pattern = "None"
        /\ \A i \in DOMAIN net.opens :
              /\ net.opens[i].how = "s3"
              /\ net.opens[i].version_id = get.version_id
        /\ IF get.s3 /= "None" \/ get.connection_config.is_dict
           THEN /\ get.pc \in {"open", "returned", "raised"}
                /\ get.pc = "raised" =>
                      (get.err = "ValidationError" /\ get.s3 = "None"
                       /\ net.opens = <<>>)
                /\ get.pc = "returned" => Len(net.opens) = 1
                /\ get.pc = "open" =>
                      get.transport_params.version_id = get.version_id
           ELSE get.pc = "raised" /\ get.err = "TypeError" /\ net.opens = <<>>

C25_Witness ==
    /\ get.pc = "returned" /\ get.version_id = "v1"
    /\ get.public_url /= "None" /\ get.s3 = "s3"
    /\ Len(net.opens) = 1 /\ net.opens[1].how = "s3"
    /\ net.opens[1].version_id = "v1" /\ url.pc = "idle"

C25_WitnessPublicOnly ==
    /\ get.pc = "raised" /\ get.err = "TypeError" /\ get.version_id = "v1"
    /\ get.public_url /= "None" /\ get.s3 = "None"
    /\ ~get.connection_config.is_dict

\* C26: put_object_s3 measures the size of the source stream and leaves the
\* stream at the position the caller put it; an attempt writes chunks of 1
\* to chunk_size bytes, each starting where the one before it ended, the
\* first at that position; and a call that succeeds at its first attempt
\* has stored exactly the bytes from that position to the end of the stream.
C26_ChunkedUpload ==
    put.pc /= "idle" =>
        /\ put.obj_size = put.file_obj.size
        /\ (put.pc = "open" /\ put.trace = <<>>) =>
              put.file_obj.pos = put.source_pos
        /\ NAttempts(put.trace) = 1 =>
              /\ \A i \in DOMAIN put.f :
                    /\ put.f[i][2] - put.f[i][1] >= 1
                    /\ put.f[i][2] - put.f[i][1] <= put.chunk_size
                    /\ put.f[i][1] = IF i = 1 THEN put.source_pos
                                     ELSE put.f[i - 1][2]
              /\ put.pc = "close" =>
                    /\ put.file_obj.pos = put.file_obj.size
                    /\ put.chunk[1] = put.chunk[2]
              /\ put.pc = "returned" =>
                    bucket_put.object =
                        IF put.source_pos = put.file_obj.size THEN <<>>
                        ELSE <<(<<put.source_pos, put.file_obj.size>>)>>

C26_Witness ==
    /\ put.pc = "returned" /\ NAttempts(put.trace) = 1
    /\ put.source_pos = 1 /\ put.file_obj.size = 2^28 + 1
    /\ put.chunk_size = 2^27 /\ Len(put.f) = 2
    /\ bucket_put.object = <<(<<1, 2^28 + 1>>)>>

\* C27: when get_object_s3 is given a public_url and no version_id it reads
\* through the public URL only: no connection_config is validated, no client
\* is built and no read goes through an S3 client, whatever s3 handle or
\* connection_config came with it.  When it takes the client path with an s3
\* handle, that handle is the client of the read and the connection_config
\* that came with it is neither validated nor used to build a client.
C27_TransportResolution ==
    get.pc /= "idle" =>
        /\ (get.public_url /= "None" /\ get.version_id = "None") =>
              /\ get.pc \in {"url_to_stream", "returned"}
              /\ net.clients = 0 /\ net.validations = 0
              /\ get.transport_params.client = "None"
              /\ url.pc /= "idle"
              /\ \A i \in DOMAIN net.opens : net.opens[i].how = "http"
        /\ (get.s3 /= "None"
            /\ ~(get.public_url /= "None" /\ get.version_id = "None")) =>
              /\ get.pc \in {"open", "returned"}
              /\ net.clients = 0 /\ net.validations = 0
              /\ get.transport_params.client = get.s3
              /\ url.pc = "idle"
              /\ \A i \in DOMAIN net.opens :
                    net.opens[i].how = "s3" /\ net.opens[i].client = get.s3

C27_Witness ==
    /\ get.pc = "returned" /\ get.public_url /= "None" /\ get.version_id = "None"
    /\ get.s3 = "s3" /\ get.connection_config.is_dict
    /\ net.clients = 0 /\ net.validations = 0
    /\ Len(net.opens) >= 1 /\ net.opens[1].how = "http"

C27_WitnessHandleWithConfig ==
    /\ get.pc = "returned" /\ get.public_url = "None"
    /\ get.s3 = "s3" /\ get.connection_config.is_dict
    /\ ~ConnectionConfig(get.connection_config)
    /\ net.clients = 0 /\ net.validations = 0
    /\ Len(net.opens) = 1 /\ net.opens[1].client = "s3"

\* C28: multi_copy_object_s3 never changes the list and the dicts the caller
\* passed as source_dest_keys: the client handle and the bucket names are
\* stored in the dicts of its own copy.  Every task gets the dict made from
\* its own entry, all tasks get the same client handle, and a step of one
\* task changes the state of no other task nor the caller's list.
C28_CallerKeysUntouched ==
    /\ [](mc.pc /= "idle" =>
            /\ mc.source_dest_keys =
                   [i \in 1..Len(mc.source_dest_keys) |-> KeyDict(i)]
            /\ Len(mc.keys) = Len(mc.source_dest_keys)
            /\ \A i \in DOMAIN mc.futures :
                  /\ mc.futures[i].key =
                         mc_fill_key(mc.source_dest_keys[i], "s3",
                                     "source_bucket", "dest_bucket")
                  /\ mc.keys[i] = mc.futures[i].key
            /\ \A i \in DOMAIN mc.keys :
                  i > Len(mc.futures) => mc.keys[i] = mc.source_dest_keys[i])
    /\ [][mc.pc /= "idle" =>
            /\ mc'.source_dest_keys = mc.source_dest_keys
            /\ \A i, j \in DOMAIN mc.futures :
                  (i /= j /\ mc'.futures[i] /= mc.futures[i]) =>
                      /\ mc'.futures[j] = mc.futures[j]
                      /\ bucket_mc'[j] = bucket_mc[j]]_vars

C28_Witness ==
    /\ mc.pc = "returned" /\ Len(mc.source_dest_keys) = 3
    /\ Len(mc.futures) = 3
    /\ \A i \in 1..3 :
          /\ mc.source_dest_keys[i].s3 = "None"
          /\ mc.keys[i].s3 = "s3"
          /\ mc.futures[i].key.s3 = "s3"
          /\ mc.futures[i].key.source_key = i

\* C29 as stated: zstd_stream_reader and zstd_stream_writer, called without a
\* buffer_size, build the wrapper with the wrapped stream's _buffer_size when
\* it has one and with 500000 bytes otherwise.
C29_Default500000 ==
    /\ (zr.pc = "returned" /\ zr.arg = Absent) =>
          zr.reader.size = IF hasattr_buffer_size(zr.stream)
                           THEN zr.stream.attr_buffer_size[1] ELSE 500000
    /\ (zw.pc \in {"setattr", "returned", "raised"} /\ zw.arg = Absent) =>
          zw.writer.size = IF hasattr_buffer_size(zw.stream)
                           THEN zw.stream.attr_buffer_size[1] ELSE 500000

\* C29, amended: the wrapper is built with the wrapped stream's _buffer_size
\* when it has one; otherwise with the buffer_size argument, which is 512000
\* bytes when the caller passes none.  A writer that is returned carries
\* the size it was built with as its own _buffer_size, so a writer around
\* it is built with the same size.
C29_BufferSize ==
    /\ zr.pc = "returned" =>
          /\ zr.reader.size =
                 IF zr.stream.attr_buffer_size /= Absent
                 THEN zr.stream.attr_buffer_size[1]
                 ELSE IF zr.arg /= Absent THEN zr.arg[1] ELSE 512000
          /\ zr.reader.cls = "ZstdDecompressionReader"
    /\ zw.pc \in {"setattr", "returned", "raised"} =>
          /\ zw.writer.size =
                 IF zw.stream.attr_buffer_size /= Absent
                 THEN zw.stream.attr_buffer_size[1]
                 ELSE IF zw.arg /= Absent THEN zw.arg[1] ELSE 512000
          /\ zw.writer.cls = "ZstdCompressionWriter"
          /\ zw.stream.cls = "ZstdCompressionWriter" =>
                zw.writer.size = zw.stream.size
    /\ zw.pc = "returned" => zw.writer.attr_buffer_size = Some(zw.writer.size)

C29_WitnessInherited ==
    /\ zw.pc = "returned" /\ zw.arg = Some(1)
    /\ zw.stream.cls = "ZstdCompressionWriter"
    /\ zw.stream.attr_buffer_size = Some(512000)
    /\ zw.writer.size = 512000 /\ zw.writer.depth = 2

C29_Witness ==
    /\ zr.pc = "returned" /\ zr.arg = Absent
    /\ zr.stream.attr_buffer_size = Absent /\ zr.reader.size = 512000

====
